---- MODULE Spec2Model ----
(***************************************************************************)
(* Incremental multi-source sync engine of linear-issue-enhancer           *)
(* (src/src/sync): the StateManager, the sync_all orchestrator and the     *)
(* connectors' download operations, as state machines.                     *)
(*                                                                         *)
(* Python dicts are functions with string keys; a missing key is a key     *)
(* outside DOMAIN.  Timestamps and diff tokens are integers, None is -1.   *)
(* sync_state.json holds only string keys and JSON-native values, so       *)
(* json.dumps / json.loads give back the dict that was written: the file   *)
(* is modelled by the dict it parses to, plus whether it exists.           *)
(***************************************************************************)
EXTENDS Integers, Sequences, FiniteSets, TLC

VARIABLES
    file,        \* parsed content of <data_dir>/sync_state.json
    fileExists,  \* whether sync_state.json exists
    sm,          \* StateManager.state of the live StateManager
    now,         \* wall clock (minutes)
    lock,        \* StateManager.lock: 0 when free, else the task holding it
    tpc,         \* SpecSM: control point of each concurrent caller
    targ,        \* SpecSM: the arguments of each caller's current call
    returned,    \* SpecSM: (source, item) -> value of the last update_item that returned
    env,         \* the connectors whose enabled property is true (process environment)
    pc,          \* control point of sync_all_async
    queue,       \* the connectors the loop of sync_all_async has not reached yet
    cur,         \* the connector whose download is running
    updated,     \* local variable updated of sync_all_async
    ret,         \* how the last sync_all_async call ended: its return value, or "raised"
    selected,    \* the connectors of the current run (enabled, after the filter)
    attempted,   \* the connectors whose setup() was called in the current run
    failed,      \* the connectors whose setup returned False or whose download raised
    finalizes,   \* number of finalize() calls of the current run
    seenAtFinalize, \* the value of attempted when finalize() wrote last_sync
    staleBefore, \* the max ages m for which needs_sync was true when the run started
    endedAt,     \* clock value when the run ended
    remote,      \* SpecConn: what the enabled connector's remote source holds
    disk,        \* SpecConn: the artifacts in the connector's output directory
    prior,       \* the state argument of download: state_manager.get(name)
    listing,     \* the items the remote reported to the running download
    task,        \* item -> control point of its process_doc / process_channel task
    pending,     \* item -> the ItemState its task produced (doc_state / channel_state)
    counts,      \* item -> number of messages its task emitted (ChatConnector)
    newState,    \* new_state of the running download
    result,      \* the ConnectorResult of the last download that returned
    fetched,     \* items whose content fetch was invoked in the current run
    fetchFailed, \* items whose content fetch failed in the current run
    committed,   \* items whose update_item call has returned in the current run
    written,     \* artifacts written or appended to in the current run
    startState,  \* the persisted state when the current run started
    kills,       \* number of times the process was killed
    startDisk,   \* ghost: the artifacts when the run started
    prev,        \* how the previous completed run left things
    saveErr,     \* the callers whose _save() raised in the current run
    credited,    \* the connectors whose result set updated in the current run
    rlCap,       \* RateLimiter: max_tokens (slack) or rate (gdrive, gmail), in tokens
    rlTokens,    \* RateLimiter.tokens, in units of 1/TokenUnits token
    rlLast,      \* RateLimiter.last_update
    rlNow,       \* the event loop's clock, in ticks of 1/(rate * TokenUnits) second
    rlPc,        \* control point of each caller of acquire()
    rlWake,      \* the clock value at which the asyncio.sleep of acquire() is due
    rlServed,    \* number of acquire() calls that have returned
    rlPrompt,    \* no time has passed except while a due sleep was awaited
    pxFolders,   \* path exclusion: the names of the folders from the root to the document's parent
    pxPattern,   \* path exclusion: the segments of the configured pattern
    nsCall,      \* the last needs_sync call since the last run started: argument and result
    gdExcluded,  \* the documents for which _is_in_excluded_folder is now true
    alSender,    \* allow-list: sender_email, the address parseaddr took from the From header
    alItems,     \* allow-list: the items of GMAIL_ALLOWED_SENDERS
    alInternal,  \* allow-list: INTERNAL_DOMAINS
    alOutcome,   \* allow-list: what download did with the message ("none" before)
    pxResult,    \* path exclusion: what _is_in_excluded_folder returned ("none" before the call)
    ucUsers,     \* user cache: the user ids in the users dict shared by the channel tasks
    ucPc,        \* user cache: control point of each channel task in _get_user_info_async
    ucArg,       \* user cache: the user id each channel task is resolving
    ucLeft,      \* user cache: number of user references each channel task has still to resolve
    ucLookups,   \* user cache: user id -> number of remote users_info invocations in the run
    rtPc,        \* retry: control point of one _call_with_retry call and of the fetch that made it
    rtAttempt,   \* retry: the loop variable attempt (max_retries in the final attempt)
    rtCalls,     \* retry: number of remote calls made
    rtTokens,    \* retry: number of rate_limiter.acquire() calls that returned
    rtSlept,     \* retry: the durations of the asyncio.sleep calls, in order
    rtOutcome,   \* retry: what the calling fetch made of the call ("none" before)
    fwCache,     \* folder walk: folder id -> its first parent (NoParent when it has none)
    fwKind,      \* folder walk: which function walks, "path" or "ancestry"
    fwCur,       \* folder walk: the folder_id argument of the current recursive call
    fwSeen,      \* folder walk: the set seen
    fwResult,    \* folder walk: the folder ids taken into the result so far, self first
    fwVisits,    \* folder walk: folder id -> number of times the walk took it
    fwPc,        \* folder walk: "walking" or "done"
    semCap,      \* fan-out: the size the download gave its asyncio.Semaphore
    semValue,    \* fan-out: the semaphore's counter of free slots
    semPc,       \* fan-out: item -> where its task is: "waiting", "inside" the async with block, "done"
    gcNow,       \* repo cache: the clock, in ticks of 1/GcTicksPerHour hour
    gcRepos,     \* repo cache: cache["repos"], cache key -> when that set was fetched and whether the fetch succeeded
    gcUpdated,   \* repo cache: cache["last_updated"], None before the first save
    gcCall,      \* repo cache: the last get_repos call: its key, whether it was served from the cache, the age of the set returned
    ovSm,        \* overlapping runs: run -> the state of the StateManager that run constructed
    ovPc,        \* overlapping runs: run -> "idle", "running" or "ended"
    nmNames,     \* artifact names: document -> its display name now (doc["name"])
    nmStored,    \* artifact names: document -> the name in its state entry, <<>> when it has none
    nmFiles,     \* artifact names: file name in the output directory -> the document whose export wrote it
    nmBefore,    \* artifact names: the output directory before the deletion step
    nmTarget     \* artifact names: the excluded document the deletion step was run for (0 before)

coreVars == <<file, fileExists, sm, now>>
smVars == <<lock, tpc, targ, returned>>
orchVars == <<env, pc, queue, cur, updated, ret, selected, attempted, failed,
              finalizes, seenAtFinalize, staleBefore, endedAt>>
connVars == <<remote, disk, prior, listing, task, pending, counts, newState, result,
              fetched, fetchFailed, committed, written, startState, kills, startDisk, prev>>
rlVars == <<rlCap, rlTokens, rlLast, rlNow, rlPc, rlWake, rlServed, rlPrompt>>
pxVars == <<pxFolders, pxPattern, pxResult>>
alVars == <<alSender, alItems, alInternal, alOutcome>>
unitVars == <<rlVars, pxVars, alVars>>
sideVars == <<gdExcluded, nsCall>>
ucVars == <<ucUsers, ucPc, ucArg, ucLeft, ucLookups>>
rtVars == <<rtPc, rtAttempt, rtCalls, rtTokens, rtSlept, rtOutcome>>
fwVars == <<fwCache, fwKind, fwCur, fwSeen, fwResult, fwVisits, fwPc>>
semVars == <<semCap, semValue, semPc>>
gcVars == <<gcNow, gcRepos, gcUpdated, gcCall>>
ovVars == <<ovSm, ovPc>>
nmVars == <<nmNames, nmStored, nmFiles, nmBefore, nmTarget>>
moreVars == <<ucVars, rtVars, fwVars, semVars, gcVars, ovVars, nmVars>>
ucRest == <<rtVars, fwVars, semVars, gcVars, ovVars, nmVars>>
rtRest == <<ucVars, fwVars, semVars, gcVars, ovVars, nmVars>>
fwRest == <<ucVars, rtVars, semVars, gcVars, ovVars, nmVars>>
semRest == <<ucVars, rtVars, fwVars, gcVars, ovVars, nmVars>>
gcRest == <<ucVars, rtVars, fwVars, semVars, ovVars, nmVars>>
ovRest == <<ucVars, rtVars, fwVars, semVars, gcVars, nmVars>>
nmRest == <<ucVars, rtVars, fwVars, semVars, gcVars, ovVars>>
extVars == <<saveErr, credited, sideVars, unitVars, moreVars>>
progVars == <<coreVars, smVars, orchVars, connVars, saveErr, credited, sideVars, moreVars>>
oldVars == <<coreVars, smVars, orchVars, connVars, saveErr, credited, sideVars, unitVars>>
vars == <<coreVars, smVars, orchVars, connVars, extVars>>

---------------------------------------------------------------------------
(* Bounds *)

MaxClock == 2
NumTasks == 2
NumDocs == 2
MaxVersion == 2
MaxKills == 1
NumChans == 2
MaxPosts == 2
NumMsgs == 2
MaxAppends == 2

---------------------------------------------------------------------------
(* Python values *)

None == -1

EmptyDict == [k \in {} |-> None]

\* dict.get(k, default)
Get(d, k, default) == IF k \in DOMAIN d THEN d[k] ELSE default

\* d[k] = v
Put(d, k, v) == [x \in DOMAIN d \cup {k} |-> IF x = k THEN v ELSE d[x]]

---------------------------------------------------------------------------
(* StateManager, src/src/sync/__init__.py *)

\* StateManager._load / load_state
EmptyState == [last_sync |-> None]

Load == IF fileExists THEN file ELSE EmptyState

\* StateManager.get
SMGet(st, source) == Get(st, source, EmptyDict)

\* A body for update_item that overwrites the source's map instead of upserting into it.
UpdateItemOverwrite(st, source, item_id, item_state) ==
    Put(st, source, Put(EmptyDict, item_id, item_state))

\* StateManager.update_item, lines 37-39: the in-memory upsert
UpdateItem(st, source, item_id, item_state) ==
    LET st1 == IF source \notin DOMAIN st THEN Put(st, source, EmptyDict) ELSE st
    IN  Put(st1, source, Put(st1[source], item_id, item_state))

\* StateManager.finalize, line 45
SetLastSync(st, t) == Put(st, "last_sync", t)

\* StateManager._save() that leaves the file as it was
SaveNothing(st, old) == old

\* StateManager._save(): the new content of the file
Save(st, old) == st

---------------------------------------------------------------------------
(* SpecSM: one StateManager shared by concurrent callers of update_item    *)
(* and finalize.                                                           *)

Tasks == 1..NumTasks
SMSources == {"slack", "gdrive"}
SMItems == {"a", "b"}
SMValues == {[token |-> 1], [token |-> 2]}

IdleArg == [op |-> "none"]

\* A caller enters update_item(source, item_id, item_state) or finalize().
SMCall(t) ==
    /\ tpc[t] = "idle"
    /\ \/ \E s \in SMSources, i \in SMItems, v \in SMValues :
            targ' = [targ EXCEPT ![t] = [op |-> "update", source |-> s, id |-> i, val |-> v]]
       \/ targ' = [targ EXCEPT ![t] = [op |-> "finalize"]]
    /\ tpc' = [tpc EXCEPT ![t] = "waiting"]
    /\ UNCHANGED <<extVars, coreVars, lock, returned, orchVars, connVars>>

\* async with self.lock: the caller proceeds only when the lock is free.
SMAcquire(t) ==
    /\ tpc[t] = "waiting"
    /\ lock = 0
    /\ lock' = t
    /\ tpc' = [tpc EXCEPT ![t] = "locked"]
    /\ UNCHANGED <<extVars, coreVars, targ, returned, orchVars, connVars>>

\* The in-memory change made under the lock.
SMMutate(t) ==
    /\ tpc[t] = "locked"
    /\ sm' = IF targ[t].op = "update"
             THEN UpdateItem(sm, targ[t].source, targ[t].id, targ[t].val)
             ELSE SetLastSync(sm, now)
    /\ tpc' = [tpc EXCEPT ![t] = "mutated"]
    /\ UNCHANGED <<extVars, file, fileExists, now, lock, targ, returned, orchVars, connVars>>

\* self._save(), leaving the with block and returning.
SMSaveReturn(t) ==
    /\ tpc[t] = "mutated"
    /\ file' = Save(sm, file)
    /\ fileExists' = TRUE
    /\ lock' = 0
    /\ returned' = IF targ[t].op = "update"
                   THEN Put(returned, <<targ[t].source, targ[t].id>>, targ[t].val)
                   ELSE returned
    /\ tpc' = [tpc EXCEPT ![t] = "idle"]
    /\ targ' = [targ EXCEPT ![t] = IdleArg]
    /\ UNCHANGED <<extVars, sm, now, orchVars, connVars>>

Tick ==
    /\ now < MaxClock
    /\ now' = now + 1
    /\ UNCHANGED <<extVars, file, fileExists, sm, smVars, orchVars, connVars>>

\* No caller of the StateManager other than the orchestrator's run.
SMQuiet ==
    /\ lock = 0
    /\ tpc = [t \in Tasks |-> "idle"]
    /\ targ = [t \in Tasks |-> IdleArg]
    /\ returned = [k \in {} |-> [token |-> 0]]

\* No sync_all run in progress.
OrchIdle ==
    /\ pc = "idle"
    /\ queue = <<>>
    /\ cur = "none"
    /\ updated = FALSE
    /\ ret = "none"
    /\ selected = {}
    /\ attempted = {}
    /\ failed = {}
    /\ finalizes = 0
    /\ seenAtFinalize = {}
    /\ staleBefore = {}
    /\ endedAt = 0

NoResult == [success |-> FALSE, items_synced |-> 0, items_skipped |-> 0, valid |-> FALSE]

\* The record kept of the previous run while the remote is as that run saw
\* it: how it ended ("done" or "killed"), whether all its fetches yielded
\* content, and for a killed run the number of update_item calls that had
\* returned, the items it still had to bring in, and the items that got a new
\* version or a new top-level message since.
NoPrev == [kind |-> "none", clean |-> FALSE, k |-> 0, owed |-> {}, changed |-> {}]

\* The record after the remote changed at the items in "items": a completed
\* run is no longer the run before an unchanged remote, a killed run
\* remembers what changed since.
Changed(record, items) ==
    CASE record.kind = "done" -> NoPrev
      [] record.kind = "killed" -> [record EXCEPT !.changed = @ \cup items]
      [] OTHER -> record

\* No RateLimiter is in use.
RlIdle ==
    /\ rlCap = 0
    /\ rlTokens = 0
    /\ rlLast = 0
    /\ rlNow = 0
    /\ rlPc = [t \in Tasks |-> "idle"]
    /\ rlWake = 0
    /\ rlServed = 0
    /\ rlPrompt = TRUE

\* No exclusion check is being made.
PxIdle ==
    /\ pxFolders = <<>>
    /\ pxPattern = <<>>
    /\ pxResult = "none"

\* needs_sync has not been called.
NoCall == [called |-> FALSE]

\* No message is being filtered.
AlIdle ==
    /\ alSender = <<>>
    /\ alItems = {}
    /\ alInternal = {}
    /\ alOutcome = [done |-> FALSE]

\* No channel task is resolving a user.
UcIdle ==
    /\ ucUsers = {}
    /\ ucPc = [t \in Tasks |-> "idle"]
    /\ ucArg = [t \in Tasks |-> 0]
    /\ ucLeft = [t \in Tasks |-> 0]
    /\ ucLookups = EmptyDict

\* No _call_with_retry call is being made.
RtIdle ==
    /\ rtPc = "idle"
    /\ rtAttempt = 0
    /\ rtCalls = 0
    /\ rtTokens = 0
    /\ rtSlept = <<>>
    /\ rtOutcome = "none"

\* No folder walk is being made.
FwIdle ==
    /\ fwCache = EmptyDict
    /\ fwKind = "none"
    /\ fwCur = 0
    /\ fwSeen = {}
    /\ fwResult = <<>>
    /\ fwVisits = EmptyDict
    /\ fwPc = "done"

\* No download has fanned out item tasks.
SemIdle ==
    /\ semCap = 0
    /\ semValue = 0
    /\ semPc = EmptyDict

\* github_cache.json does not exist and get_repos has not been called.
GcIdle ==
    /\ gcNow = 0
    /\ gcRepos = EmptyDict
    /\ gcUpdated = None
    /\ gcCall = NoCall

\* No two runs overlap.
OvIdle ==
    /\ ovSm = EmptyDict
    /\ ovPc = EmptyDict

\* No deletion step is being looked at.
NmIdle ==
    /\ nmNames = EmptyDict
    /\ nmStored = EmptyDict
    /\ nmFiles = EmptyDict
    /\ nmBefore = EmptyDict
    /\ nmTarget = 0

\* The units checked on their own, except unit x, are not in use.
MoreIdleBut(x) ==
    /\ x # "uc" => UcIdle
    /\ x # "rt" => RtIdle
    /\ x # "fw" => FwIdle
    /\ x # "sem" => SemIdle
    /\ x # "gc" => GcIdle
    /\ x # "ov" => OvIdle
    /\ x # "nm" => NmIdle

\* None of the units checked on their own is in use.
MoreIdle == MoreIdleBut("none")

\* No _save() has raised and no connector was credited with progress.
ExtIdle ==
    /\ saveErr = {}
    /\ credited = {}
    /\ gdExcluded = {}
    /\ nsCall = NoCall
    /\ RlIdle
    /\ PxIdle
    /\ AlIdle
    /\ MoreIdle

\* No download in progress.
ConnQuiet ==
    /\ prior = EmptyDict
    /\ listing = EmptyDict
    /\ task = EmptyDict
    /\ pending = EmptyDict
    /\ counts = EmptyDict
    /\ newState = EmptyDict
    /\ result = NoResult
    /\ fetched = {}
    /\ fetchFailed = {}
    /\ committed = {}
    /\ written = {}
    /\ startState = EmptyState
    /\ kills = 0
    /\ startDisk = EmptyDict
    /\ prev = NoPrev

\* No download in progress and nothing on the remote side.
ConnIdle ==
    /\ ConnQuiet
    /\ remote = EmptyDict
    /\ disk = EmptyDict

InitSM ==
    /\ ExtIdle
    /\ fileExists \in BOOLEAN
    /\ file = IF fileExists
              THEN [last_sync |-> None, slack |-> Put(EmptyDict, "a", [token |-> 1])]
              ELSE EmptyState
    /\ sm = Load
    /\ now = 0
    /\ lock = 0
    /\ tpc = [t \in Tasks |-> "idle"]
    /\ targ = [t \in Tasks |-> IdleArg]
    /\ returned = [k \in {} |-> [token |-> 0]]
    /\ env = {}
    /\ OrchIdle
    /\ ConnIdle

NextSM ==
    \/ \E t \in Tasks : SMCall(t)
    \/ \E t \in Tasks : SMAcquire(t)
    \/ \E t \in Tasks : SMMutate(t)
    \/ \E t \in Tasks : SMSaveReturn(t)

SpecSM == InitSM /\ [][NextSM]_vars

\* C1: whenever no call is inside the locked section (so in particular at the
\* moment any update_item returns), sync_state.json exists and parses to exactly
\* the in-memory state, and it holds, for every (source, item) some returned
\* update_item wrote, the value of the latest such call.
C1_ReturnedUpdatesPersisted ==
    /\ (lock = 0 /\ DOMAIN returned # {}) => (fileExists /\ file = sm)
    /\ \A k \in DOMAIN returned :
          /\ fileExists
          /\ k[1] \in DOMAIN file
          /\ k[2] \in DOMAIN file[k[1]]
          /\ file[k[1]][k[2]] = returned[k]

\* Three different entries written by returned calls, one source seen for the
\* first time, a finalize done, and a second caller waiting for the lock.
C1_Witness ==
    /\ Cardinality(DOMAIN returned) >= 3
    /\ sm["last_sync"] # None
    /\ lock # 0
    /\ \E t \in Tasks : tpc[t] = "waiting"

---------------------------------------------------------------------------
(* SpecSync: sync_all_async over the registered connectors, and needs_sync. *)
(* A connector is seen through the Connector interface: setup() returns     *)
(* True or False or raises; download() returns a ConnectorResult, having    *)
(* committed at most one item through update_item, or raises.               *)

\* get_all_connectors(): the registry, in its order
Registry == <<"slack", "gdrive", "github", "gmail">>

RegistrySet == {Registry[i] : i \in DOMAIN Registry}

\* The connector_filter arguments tried; <<>> stands for None.
Filters == {<<>>, <<"gdrive">>, <<"gmail", "slack">>}

\* The max_age_minutes arguments tried
MaxAges == 1..MaxClock

InList(x, l) == \E i \in DOMAIN l : l[i] = x

\* get_enabled_connectors(), then the connector_filter comprehension
SelectConnectors(filter) ==
    LET keep(c) == c \in env /\ (filter = <<>> \/ InList(c, filter))
    IN  SelectSeq(Registry, keep)

\* needs_sync that also reports a sync of exactly the maximum age as due
NeedsSyncAtAge(m) ==
    LET last_sync == Get(Load, "last_sync", None)
    IN  IF last_sync = None THEN TRUE ELSE (now - last_sync) >= m

\* needs_sync(data_dir, max_age_minutes)
NeedsSync(m) ==
    LET last_sync == Get(Load, "last_sync", None)
    IN  IF last_sync = None THEN TRUE ELSE (now - last_sync) > m

\* finalize() with the timestamp left as it was
FinalizeStateKeep(st) == st

\* finalize(): state["last_sync"] = now
FinalizeState(st) == SetLastSync(st, now)

\* sync_all_async, lines 69-85: construct the StateManager, select the
\* connectors, return False when none is left.
SyncStart ==
    /\ pc = "idle"
    /\ lock = 0
    /\ \E filter \in Filters :
         LET connectors == SelectConnectors(filter)
         IN  /\ selected' = {connectors[i] : i \in DOMAIN connectors}
             /\ IF connectors = <<>>
                THEN /\ pc' = "ended"
                     /\ ret' = "false"
                     /\ queue' = <<>>
                ELSE /\ pc' = "loop"
                     /\ ret' = "none"
                     /\ queue' = connectors
    /\ sm' = Load
    /\ cur' = "none"
    /\ updated' = FALSE
    /\ attempted' = {}
    /\ failed' = {}
    /\ finalizes' = 0
    /\ seenAtFinalize' = {}
    /\ staleBefore' = {m \in MaxAges : NeedsSync(m)}
    /\ endedAt' = now
    /\ saveErr' = {}
    /\ credited' = {}
    /\ nsCall' = NoCall
    /\ UNCHANGED <<unitVars, moreVars, gdExcluded, file, fileExists, now, smVars, env, connVars>>

\* Lines 87-91: connector.setup(); it is called outside the try block.
SyncSetup ==
    /\ pc = "loop"
    /\ queue # <<>>
    /\ LET c == Head(queue)
       IN  /\ attempted' = attempted \cup {c}
           /\ \/ \* setup() returned True
                 /\ pc' = "download"
                 /\ cur' = c
                 /\ UNCHANGED <<queue, failed, ret, endedAt>>
              \/ \* setup() returned False: skip the connector
                 /\ queue' = Tail(queue)
                 /\ failed' = failed \cup {c}
                 /\ UNCHANGED <<pc, cur, ret, endedAt>>
              \/ \* setup() raised: the exception leaves sync_all_async
                 /\ pc' = "ended"
                 /\ ret' = "raised"
                 /\ failed' = failed \cup {c}
                 /\ endedAt' = now
                 /\ UNCHANGED <<queue, cur>>
    /\ UNCHANGED <<extVars, coreVars, smVars, env, updated, selected, finalizes,
                   seenAtFinalize, staleBefore, connVars>>

\* The except clause that lets the exception leave sync_all_async
ExceptPropagates == "ended"

\* Lines 106-107, except Exception: the error is printed and the for loop
\* goes on with the next connector.
ExceptException == "loop"

\* Lines 96-107: connector.download() inside try / except Exception.  No
\* connector wraps its update_item call in a try block (gdrive.py:148,
\* slack.py:93, github.py:153, gmail.py:230) and update_item has none around
\* _save(), so an error of write_text leaves update_item and download with the
\* in-memory upsert of line 39 done and the file as it was.
SyncDownload ==
    /\ pc = "download"
    /\ \/ \* download committed one item and returned items_synced = 1
          /\ sm' = UpdateItem(sm, cur, "item", [token |-> 1])
          /\ file' = Save(sm', file)
          /\ fileExists' = TRUE
          /\ updated' = TRUE
          /\ credited' = credited \cup {cur}
          /\ pc' = "loop"
          /\ UNCHANGED <<failed, saveErr>>
       \/ \* download returned items_synced = 0
          /\ pc' = "loop"
          /\ UNCHANGED <<sm, file, fileExists, updated, failed, saveErr, credited>>
       \/ \* download raised: caught and printed
          /\ failed' = failed \cup {cur}
          /\ pc' = ExceptException
          /\ UNCHANGED <<sm, file, fileExists, updated, saveErr, credited>>
       \/ \* _save() raised inside update_item, inside download
          /\ sm' = UpdateItem(sm, cur, "item", [token |-> 1])
          /\ saveErr' = saveErr \cup {cur}
          /\ failed' = failed \cup {cur}
          /\ pc' = ExceptException
          /\ UNCHANGED <<file, fileExists, updated, credited>>
    /\ queue' = Tail(queue)
    /\ cur' = "none"
    /\ UNCHANGED <<unitVars, moreVars, sideVars, now, smVars, env, ret, selected, attempted, finalizes,
                   seenAtFinalize, staleBefore, endedAt, connVars>>

\* Lines 109-110: await state_manager.finalize(); return updated
SyncFinalize ==
    /\ pc = "loop"
    /\ queue = <<>>
    /\ lock = 0
    /\ sm' = FinalizeState(sm)
    /\ \/ \* _save() returned
          /\ file' = Save(sm', file)
          /\ fileExists' = TRUE
          /\ ret' = IF updated THEN "true" ELSE "false"
          /\ UNCHANGED saveErr
       \/ \* _save() raised: the error leaves finalize and sync_all_async
          /\ saveErr' = saveErr \cup {"finalize"}
          /\ ret' = "raised"
          /\ UNCHANGED <<file, fileExists>>
    /\ finalizes' = finalizes + 1
    /\ seenAtFinalize' = attempted
    /\ endedAt' = now
    /\ pc' = "ended"
    /\ UNCHANGED <<unitVars, moreVars, sideVars, credited, now, smVars, env, queue, cur, updated, selected, attempted,
                   failed, staleBefore, connVars>>

\* The caller goes on; a later call of sync_all_async starts from "idle".
SyncDone ==
    /\ pc = "ended"
    /\ pc' = "idle"
    /\ UNCHANGED <<extVars, coreVars, smVars, env, queue, cur, updated, ret, selected,
                   attempted, failed, finalizes, seenAtFinalize, staleBefore, endedAt,
                   connVars>>

\* The front-end calls needs_sync(data_dir, m) between two runs.
NeedsSyncCall ==
    /\ pc \in {"idle", "ended"}
    /\ \E m \in MaxAges :
         nsCall' = [called |-> TRUE, m |-> m, result |-> NeedsSync(m)]
    /\ UNCHANGED <<coreVars, smVars, orchVars, connVars, saveErr, credited, gdExcluded,
                   unitVars, moreVars>>

InitSync ==
    /\ ExtIdle
    /\ fileExists = FALSE
    /\ file = EmptyState
    /\ sm = EmptyState
    /\ now = 0
    /\ SMQuiet
    /\ env \in SUBSET RegistrySet
    /\ OrchIdle
    /\ ConnIdle

NextSync ==
    \/ SyncStart
    \/ SyncSetup
    \/ SyncDownload
    \/ SyncFinalize
    \/ SyncDone
    \/ NeedsSyncCall
    \/ Tick

SpecSync == InitSync /\ [][NextSync]_vars

\* A run that entered the connector loop has ended.
RunEnded == pc = "ended" /\ selected # {}

\* C3: in every sync_all run (here: every run that has connectors to run),
\* last_sync is written exactly once, by one finalize call, made when every
\* connector of the run has been attempted; the write is never skipped.
C3_FinalizeExactlyOnce ==
    RunEnded => (finalizes = 1 /\ seenAtFinalize = selected)

\* C3, the part the code keeps: last_sync is written at most once per run and
\* never before every connector of the run has been attempted.
C3_NeverEarlyNeverTwice ==
    /\ finalizes <= 1
    /\ finalizes = 1 => seenAtFinalize = selected

\* C4: whatever way a connector fails (setup returns False, setup raises,
\* download raises), every other connector of the run is still attempted and
\* the run still reaches finalize.
C4_FailureIsolated ==
    (RunEnded /\ failed # {}) => (attempted = selected /\ finalizes = 1)

\* C5: when every connector of the run failed (setup returned False or
\* download raised), sync_all returns False and needs_sync, evaluated
\* immediately after the run, is still true for every max age for which it
\* was true immediately before the run.
C5_TotalFailureStaysStale ==
    (RunEnded /\ ret # "raised" /\ failed = selected /\ now = endedAt)
        => (ret = "false" /\ \A m \in staleBefore : NeedsSync(m))

\* C5 as the code has it: when at least one connector is enabled and every
\* connector of the run failed by setup returning False or download raising,
\* sync_all returns False, and the run has still finalized: last_sync is the
\* time the run ended, so needs_sync evaluated immediately after the run is
\* false for every max age of one minute or more.
C5_TotalFailureReturnsFalseAndIsFresh ==
    (RunEnded /\ ret # "raised" /\ failed = selected /\ now = endedAt)
        => (ret = "false" /\ finalizes = 1 /\ \A m \in MaxAges : ~NeedsSync(m))

\* A run of two connectors, one failing in setup and one in download, that was
\* stale before it started.
C5_Witness ==
    /\ RunEnded
    /\ ret = "false"
    /\ failed = selected
    /\ Cardinality(selected) >= 2
    /\ attempted = selected
    /\ staleBefore = MaxAges
    /\ now = endedAt
    /\ now > 0

SyncDue(m) ==
    \/ ~fileExists
    \/ Get(file, "last_sync", None) = None
    \/ now - file.last_sync > m

\* C18: every needs_sync(dataDir, m) call returns true iff there is no state
\* file, or last_sync is null, or the age of last_sync is greater than m, and
\* leaves the state file as it was.
C18_NeedsSyncPureRead ==
    [][nsCall' # nsCall /\ nsCall'.called
         => /\ nsCall'.result = SyncDue(nsCall'.m)
            /\ file' = file
            /\ fileExists' = fileExists]_vars

\* needs_sync was called on a state file whose last_sync was exactly the
\* maximum age old and returned false, the clock having moved since the run.
C18_Witness ==
    /\ nsCall.called
    /\ ~nsCall.result
    /\ fileExists
    /\ now - file.last_sync = nsCall.m

\* The StateManager of the run has been constructed and nothing has used it.
JustConstructed == pc # "idle" /\ attempted = {} /\ finalizes = 0

\* The state the tests expect for a missing state file (test_sync.py:18, 93).
SeededState == [last_sync |-> None, slack |-> EmptyDict, gdrive |-> EmptyDict]

\* C19: with no state file, the state of a newly constructed StateManager and
\* the result of load_state are {last_sync: null, slack: {}, gdrive: {}}; with
\* a state file, both are the file's content.
C19_FreshStateSeeded ==
    LET expected == IF fileExists THEN file ELSE SeededState
    IN  /\ Load = expected
        /\ JustConstructed => sm = expected

---------------------------------------------------------------------------
(* SpecConn: repeated sync_all runs in an environment that enables one      *)
(* connector, whose setup succeeds, against a remote that changes between   *)
(* runs; the process may be killed during a run.  Each run constructs a new *)
(* StateManager from sync_state.json, hands state_manager.get(name) to the  *)
(* connector's download and finalizes.                                      *)

\* What every run resets when sync_all_async starts and the download is entered.
RunReset ==
    /\ pc = "idle"
    /\ lock = 0
    /\ sm' = Load
    /\ startState' = Load
    /\ pending' = EmptyDict
    /\ counts' = EmptyDict
    /\ fetched' = {}
    /\ fetchFailed' = {}
    /\ committed' = {}
    /\ written' = {}
    /\ startDisk' = disk
    /\ result' = NoResult
    /\ updated' = FALSE
    /\ ret' = "none"
    /\ finalizes' = 0
    /\ UNCHANGED <<extVars, file, fileExists, now, smVars, env, queue, selected, attempted,
                   failed, seenAtFinalize, staleBefore, endedAt, remote, kills, prev>>

\* The entries of the connector's source in the persisted state.
Entries(c) == SMGet(Load, c)

\* sync_all_async lines 103-110 after the download returned: the items_synced
\* test, finalize(), return updated.
ConnFinalize ==
    /\ pc = "finalize"
    /\ lock = 0
    /\ sm' = FinalizeState(sm)
    /\ file' = Save(sm', file)
    /\ fileExists' = TRUE
    /\ finalizes' = finalizes + 1
    /\ ret' = IF updated THEN "true" ELSE "false"
    /\ endedAt' = now
    /\ pc' = "ended"
    /\ UNCHANGED <<extVars, now, smVars, env, queue, cur, updated, selected, attempted, failed,
                   seenAtFinalize, staleBefore, connVars>>

\* The memory of a run is released.
RunForget ==
    /\ sm' = EmptyState
    /\ prior' = EmptyDict
    /\ listing' = EmptyDict
    /\ task' = EmptyDict
    /\ pending' = EmptyDict
    /\ counts' = EmptyDict
    /\ newState' = EmptyDict
    /\ result' = NoResult
    /\ fetched' = {}
    /\ fetchFailed' = {}
    /\ committed' = {}
    /\ written' = {}
    /\ startState' = EmptyState
    /\ startDisk' = EmptyDict
    /\ updated' = FALSE
    /\ ret' = "none"
    /\ finalizes' = 0
    /\ pc' = "idle"
    /\ UNCHANGED <<extVars, file, fileExists, now, smVars, env, queue, cur, selected, attempted,
                   failed, seenAtFinalize, staleBefore, endedAt, remote, disk>>

\* sync_all_async has returned; the process goes on to its other work.
ConnDone ==
    /\ pc = "ended"
    /\ RunForget
    /\ prev' = [kind |-> "done", clean |-> fetchFailed = {}, k |-> 0, owed |-> {},
                changed |-> {}]
    /\ UNCHANGED kills

\* The items of the run in progress that have something to bring in and
\* whose update_item has not returned.
Owed ==
    IF cur = "slack"
    THEN {ch \in DOMAIN remote \ committed :
             \E t \in DOMAIN remote[ch] :
                 remote[ch][t] = 0 /\ t > Get(Get(prior, ch, EmptyDict), "last_ts", 0)}
    ELSE DOMAIN task \ committed

\* The process is killed during a run: everything in memory is gone, the
\* state file and the artifacts stay as they are.  Kills are counted, and
\* capped, where a kill can make an artifact grow (the appended channel files).
Kill ==
    /\ pc \in {"gather", "finalize"}
    /\ kills < MaxKills
    /\ kills' = IF cur = "slack" THEN kills + 1 ELSE kills
    /\ RunForget
    /\ prev' = [kind |-> "killed", clean |-> fetchFailed = {},
                k |-> Cardinality(committed), owed |-> Owed, changed |-> {}]

---------------------------------------------------------------------------
(* GDriveConnector, src/src/sync/connectors/gdrive.py, with no excluded     *)
(* folders configured.  The remote holds, per document, its modifiedTime    *)
(* (0: no such document); a document's name is its id.  The artifact of a   *)
(* document is modelled by the modifiedTime of the version it was made of.  *)

Docs == 1..NumDocs

GDRIVE_CONCURRENT_EXPORTS == 5

\* download line 131 with the test reduced to "the document has an entry"
DocKnown(state, doc_id, modified_time) ==
    doc_id \in DOMAIN state

\* download lines 128-131: last_modified == modified_time
DocUnchanged(state, doc_id, modified_time) ==
    Get(Get(state, doc_id, EmptyDict), "modified_time", None) = modified_time

\* _export_and_save_doc returning a state also when the export gave no content
DocStateAlways(doc_id, modified_time, content_ok) ==
    [name |-> doc_id, modified_time |-> modified_time, some |-> TRUE]

\* _export_and_save_doc lines 221-233: None when the export gave no content,
\* else {"name", "modified_time"}
DocState(doc_id, modified_time, content_ok) ==
    IF content_ok
    THEN [name |-> doc_id, modified_time |-> modified_time, some |-> TRUE]
    ELSE [some |-> FALSE]

\* The entry written for a doc_state
DocEntry(ds) == [name |-> ds.name, modified_time |-> ds.modified_time]

\* _delete_doc_md_file that leaves the artifact in place
KeepDocMdFile(artifacts, doc_id) == artifacts

\* _delete_doc_md_file, lines 524-542: the artifact named after the stored or
\* the current name of the document is unlinked if it exists (0: no file)
DeleteDocMdFile(artifacts, doc_id) == [artifacts EXCEPT ![doc_id] = 0]

\* download lines 108-121: every listed document in an excluded folder has
\* its artifact deleted
RECURSIVE DeleteExcluded(_, _)
DeleteExcluded(artifacts, docs) ==
    IF docs = {} THEN artifacts
    ELSE LET d == CHOOSE x \in docs : TRUE
         IN  DeleteExcluded(DeleteDocMdFile(artifacts, d), docs \ {d})

\* download lines 105-139: list the documents, drop those in excluded
\* folders and delete their artifacts, carry the unchanged ones forward,
\* create one process_doc task per document to sync.
GdStart ==
    /\ env = {"gdrive"}
    /\ RunReset
    /\ cur' = "gdrive"
    /\ prior' = SMGet(Load, "gdrive")
    /\ LET listed == {d \in Docs : remote[d] > 0}
           docs == listed \ gdExcluded
           unchanged == {d \in docs : DocUnchanged(prior', d, remote[d])}
       IN  /\ disk' = DeleteExcluded(disk, listed \cap gdExcluded)
           /\ listing' = [d \in docs |-> remote[d]]
           /\ newState' = [d \in unchanged |-> prior'[d]]
           /\ task' = [d \in docs \ unchanged |-> "todo"]
    /\ pc' = "gather"

\* process_doc, lines 142-145: take a semaphore slot, export the document and,
\* when it has content, write its artifact.
DocExport(d) ==
    /\ pc = "gather"
    /\ cur = "gdrive"
    /\ d \in DOMAIN task
    /\ task[d] = "todo"
    /\ Cardinality({x \in DOMAIN task : task[x] = "exported"}) < GDRIVE_CONCURRENT_EXPORTS
    /\ fetched' = fetched \cup {d}
    /\ \E content_ok \in BOOLEAN :
         LET ds == DocState(d, listing[d], content_ok)
         IN  /\ pending' = Put(pending, d, ds)
             /\ IF content_ok
                THEN /\ disk' = Put(disk, d, listing[d])
                     /\ written' = written \cup {d}
                     /\ UNCHANGED fetchFailed
                ELSE /\ fetchFailed' = fetchFailed \cup {d}
                     /\ UNCHANGED <<disk, written>>
             /\ task' = [task EXCEPT ![d] = IF ds.some THEN "exported" ELSE "done"]
    /\ UNCHANGED <<extVars, coreVars, smVars, orchVars, remote, prior, listing, counts, newState,
                   result, committed, startState, kills, startDisk, prev>>

\* process_doc, lines 147-150: update_item for the exported document
DocCommit(d) ==
    /\ pc = "gather"
    /\ cur = "gdrive"
    /\ d \in DOMAIN task
    /\ task[d] = "exported"
    /\ lock = 0
    /\ sm' = UpdateItem(sm, "gdrive", d, DocEntry(pending[d]))
    /\ file' = Save(sm', file)
    /\ fileExists' = TRUE
    /\ committed' = committed \cup {d}
    /\ task' = [task EXCEPT ![d] = "done"]
    /\ UNCHANGED <<extVars, now, smVars, orchVars, remote, disk, prior, listing, pending, counts,
                   newState, result, fetched, fetchFailed, written, startState, kills,
                   startDisk, prev>>

\* download lines 152-165: gather returns, the results are counted and the
\* ConnectorResult is returned to sync_all_async.
GdGather ==
    /\ pc = "gather"
    /\ cur = "gdrive"
    /\ \A d \in DOMAIN task : task[d] = "done"
    /\ LET synced == {d \in DOMAIN task : pending[d].some}
           synced_count == Cardinality(synced)
           skipped_count == Cardinality(DOMAIN listing) - Cardinality(DOMAIN task)
       IN  /\ newState' = [d \in DOMAIN newState \cup synced |->
                              IF d \in synced THEN DocEntry(pending[d]) ELSE newState[d]]
           /\ result' = [success |-> TRUE, items_synced |-> synced_count,
                         items_skipped |-> skipped_count, valid |-> TRUE]
           /\ updated' = (synced_count > 0)
    /\ pc' = "finalize"
    /\ UNCHANGED <<extVars, coreVars, smVars, env, queue, cur, ret, selected, attempted, failed,
                   finalizes, seenAtFinalize, staleBefore, endedAt, remote, disk, prior,
                   listing, task, pending, counts, fetched, fetchFailed, committed,
                   written, startState, kills, startDisk, prev>>

\* Between runs a document is created or modified: its modifiedTime grows.
GdRemoteChange ==
    /\ pc = "idle"
    /\ env = {"gdrive"}
    /\ \E d \in Docs :
         /\ remote[d] < MaxVersion
         /\ remote' = [remote EXCEPT ![d] = remote[d] + 1]
         /\ prev' = Changed(prev, {d})
    /\ UNCHANGED <<extVars, coreVars, smVars, orchVars, disk, prior, listing, task, pending,
                   counts, newState, result, fetched, fetchFailed, committed, written,
                   startState, kills, startDisk>>

InitGd ==
    /\ env = {"gdrive"}
    /\ remote \in [Docs -> {0, 1}]
    /\ disk = [d \in Docs |-> 0]

---------------------------------------------------------------------------
(* SlackConnector, src/src/sync/connectors/slack.py.  The remote holds, per *)
(* channel, its messages in posting order: message number t has ts = t, and *)
(* remote[ch][t] is 0 for a top-level message and else the ts of the thread *)
(* parent it replies to.  conversations.history returns the top-level       *)
(* messages with ts > oldest; conversations.replies returns the parent and  *)
(* then the replies with ts > oldest.  A channel's artifact is the bag of   *)
(* message ts appended to its file: ts -> number of times written.  The     *)
(* channel listing succeeds; a channel's name is its id; user lookups are   *)
(* left out.                                                                *)

Chans == 1..NumChans

SLACK_CONCURRENT_CHANNELS == 6

Max(S) == CHOOSE x \in S : \A y \in S : y <= x

\* _sync_channel line 206 asking for the whole history every time
LastTsZero(state, ch) == 0

\* _sync_channel line 206: state.get(channel_id, {}).get("last_ts", "0")
LastTs(state, ch) == Get(Get(state, ch, EmptyDict), "last_ts", 0)

\* conversations_history(channel, oldest): the top-level messages newer than oldest
History(ch, oldest) ==
    {t \in DOMAIN remote[ch] : remote[ch][t] = 0 /\ t > oldest}

\* reply_count of a top-level message
ReplyCount(ch, m) == Cardinality({r \in DOMAIN remote[ch] : remote[ch][r] = m})

\* _get_thread_replies_async lines 347-353: the replies of the thread, parent
\* dropped, kept when float(ts) > float(oldest)
ThreadReplies(ch, m, oldest) ==
    {r \in DOMAIN remote[ch] : remote[ch][r] = m /\ r > oldest}

\* A channel entry that never moves last_ts forward
ChannelStateStale(state, ch, messages) ==
    Get(state, ch, [last_ts |-> 0, name |-> ch])

\* _sync_channel lines 211-218 with _get_messages_with_threads_async lines
\* 299-300 and 329-333: the entry to commit for the channel
ChannelState(state, ch, messages) ==
    IF messages = {}
    THEN Get(state, ch, [last_ts |-> 0, name |-> ch])
    ELSE [last_ts |-> Max(messages), name |-> ch]

\* _append_messages_to_md: the file after appending the emitted messages
AppendMessages(bag, emitted) ==
    [t \in DOMAIN bag \cup emitted |->
        Get(bag, t, 0) + (IF t \in emitted THEN 1 ELSE 0)]

\* download lines 73-84: list the channels, one process_channel task each.
ChatStart ==
    /\ env = {"slack"}
    /\ RunReset
    /\ UNCHANGED disk
    /\ cur' = "slack"
    /\ prior' = SMGet(Load, "slack")
    /\ listing' = [ch \in Chans |-> Len(remote[ch])]
    /\ newState' = EmptyDict
    /\ task' = [ch \in Chans |-> "todo"]
    /\ pc' = "gather"

\* process_channel lines 87-90: take a semaphore slot and run _sync_channel:
\* fetch the history since last_ts, the threads of the new messages, and
\* append what was found to the channel's file.
ChanSync(ch) ==
    /\ pc = "gather"
    /\ cur = "slack"
    /\ ch \in DOMAIN task
    /\ task[ch] = "todo"
    /\ Cardinality({x \in DOMAIN task : task[x] = "synced"}) < SLACK_CONCURRENT_CHANNELS
    /\ \E history_ok \in BOOLEAN :
         LET oldest == LastTs(prior, ch)
             messages == IF history_ok THEN History(ch, oldest) ELSE {}
             parents == {m \in messages : ReplyCount(ch, m) > 0}
         IN  \E thread_failed \in SUBSET parents :
               LET replies == UNION {ThreadReplies(ch, m, oldest) :
                                        m \in parents \ thread_failed}
               IN  /\ pending' = Put(pending, ch,
                                     ChannelState(prior, ch, messages))
                   /\ counts' = Put(counts, ch, Cardinality(messages))
                   /\ fetchFailed' = IF history_ok THEN fetchFailed
                                     ELSE fetchFailed \cup {ch}
                   /\ IF messages = {}
                      THEN UNCHANGED <<disk, written, fetched>>
                      ELSE /\ disk' = Put(disk, ch, AppendMessages(disk[ch], messages \cup replies))
                           /\ written' = written \cup {ch}
                           /\ fetched' = fetched \cup {ch}
    /\ task' = [task EXCEPT ![ch] = "synced"]
    /\ UNCHANGED <<extVars, coreVars, smVars, orchVars, remote, prior, listing, newState, result,
                   committed, startState, kills, startDisk, prev>>

\* process_channel lines 92-103: update_item for the channel
ChanCommit(ch) ==
    /\ pc = "gather"
    /\ cur = "slack"
    /\ ch \in DOMAIN task
    /\ task[ch] = "synced"
    /\ lock = 0
    /\ sm' = UpdateItem(sm, "slack", ch, pending[ch])
    /\ file' = Save(sm', file)
    /\ fileExists' = TRUE
    /\ committed' = committed \cup {ch}
    /\ task' = [task EXCEPT ![ch] = "done"]
    /\ UNCHANGED <<extVars, now, smVars, orchVars, remote, disk, prior, listing, pending, counts,
                   newState, result, fetched, fetchFailed, written, startState, kills,
                   startDisk, prev>>

\* download lines 105-128: gather returns, the channels are counted and the
\* ConnectorResult is returned to sync_all_async.
ChatGather ==
    /\ pc = "gather"
    /\ cur = "slack"
    /\ \A ch \in DOMAIN task : task[ch] = "done"
    /\ LET synced_count == Cardinality({ch \in DOMAIN task : counts[ch] # 0})
           skipped_count == Cardinality({ch \in DOMAIN task : counts[ch] = 0})
       IN  /\ newState' = [ch \in DOMAIN task |-> pending[ch]]
           /\ result' = [success |-> TRUE, items_synced |-> synced_count,
                         items_skipped |-> skipped_count, valid |-> TRUE]
           /\ updated' = (synced_count > 0)
    /\ pc' = "finalize"
    /\ UNCHANGED <<extVars, coreVars, smVars, env, queue, cur, ret, selected, attempted, failed,
                   finalizes, seenAtFinalize, staleBefore, endedAt, remote, disk, prior,
                   listing, task, pending, counts, fetched, fetchFailed, committed,
                   written, startState, kills, startDisk, prev>>

RECURSIVE Sum(_, _)
Sum(f, S) == IF S = {} THEN 0
             ELSE LET x == CHOOSE y \in S : TRUE IN f[x] + Sum(f, S \ {x})

\* The number of messages posted so far, in all channels together.
Posts == Sum([ch \in Chans |-> Len(remote[ch])], Chans)

\* Between runs a message is posted: a new top-level message, or a reply in
\* the thread of an earlier top-level message.  Its ts is newer than all others.
ChatPostUpTo(max_posts) ==
    /\ pc = "idle"
    /\ env = {"slack"}
    /\ \E ch \in Chans :
         /\ Posts < max_posts
         /\ \E parent \in 0..Len(remote[ch]) :
              /\ parent # 0 => remote[ch][parent] = 0
              /\ remote' = [remote EXCEPT ![ch] = remote[ch] \o <<parent>>]
              /\ prev' = Changed(prev, IF parent = 0 THEN {ch} ELSE {})
    /\ UNCHANGED <<extVars, coreVars, smVars, orchVars, disk, prior, listing, task, pending,
                   counts, newState, result, fetched, fetchFailed, committed, written,
                   startState, kills, startDisk>>

ChatPost == ChatPostUpTo(MaxPosts)

InitChat ==
    /\ env = {"slack"}
    /\ remote = [ch \in Chans |-> <<>>]
    /\ disk = [ch \in Chans |-> EmptyDict]

---------------------------------------------------------------------------
(* GitHubConnector, src/src/sync/connectors/github.py.  The remote holds,   *)
(* per repository, its pushedAt (0: no such repository).  A README summary  *)
(* is modelled by the pushedAt of the version it was made of, and 0 stands  *)
(* for "_No README available_".  The artifact github_repos.md is the map    *)
(* repository -> summary.                                                   *)

Repos == {"org/api", "org/web"}

NoReadme == 0

\* download lines 80-81 reading the repositories where update_item put them
PrevReposNested(state) == Get(Get(state, "repos", EmptyDict), "repos", EmptyDict)

\* download lines 80-81: prev_repos = state.get("repos", {})
PrevRepos(state) == Get(state, "repos", EmptyDict)

\* download lines 97-99: prev.get("pushed_at") == pushed_at
RepoUnchanged(state, name, pushed_at) ==
    Get(Get(PrevRepos(state), name, EmptyDict), "pushed_at", None) = pushed_at

\* download lines 83-110: fetch the metadata and split the repositories into
\* the ones to update and the unchanged ones.
GhStart ==
    /\ env = {"github"}
    /\ RunReset
    /\ UNCHANGED disk
    /\ cur' = "github"
    /\ prior' = SMGet(Load, "github")
    /\ LET current_metadata == {n \in Repos : remote[n] > 0}
           repos_unchanged == {n \in current_metadata : RepoUnchanged(prior', n, remote[n])}
       IN  /\ listing' = [n \in current_metadata |-> remote[n]]
           /\ task' = [n \in current_metadata \ repos_unchanged |-> "todo"]
    /\ newState' = EmptyDict
    /\ pc' = "gather"

\* download lines 86-87 and 113-150: return early when no repository was
\* found; else fetch the README of every repository to update, write
\* github_repos.md and build the new state.
GhFetch ==
    /\ pc = "gather"
    /\ cur = "github"
    /\ pending = EmptyDict
    /\ IF DOMAIN listing = {}
       THEN /\ newState' = prior
            /\ result' = [success |-> TRUE, items_synced |-> 0, items_skipped |-> 0,
                          valid |-> TRUE]
            /\ pc' = "finalize"
            /\ UNCHANGED <<disk, pending, fetched, written>>
       ELSE \E no_readme \in SUBSET DOMAIN task :
              LET summary == [n \in DOMAIN listing |->
                                 IF n \in DOMAIN task
                                 THEN (IF n \in no_readme THEN NoReadme ELSE listing[n])
                                 ELSE Get(PrevRepos(prior)[n], "readme_summary", NoReadme)]
                  new_repos_state == [n \in DOMAIN listing |->
                                         [pushed_at |-> listing[n],
                                          readme_summary |-> summary[n]]]
              IN  /\ disk' = summary
                  /\ pending' = [repos |-> new_repos_state, last_updated |-> now]
                  /\ fetched' = DOMAIN task
                  /\ written' = DOMAIN listing
                  /\ UNCHANGED <<newState, result, pc>>
    /\ UNCHANGED <<extVars, coreVars, smVars, env, queue, cur, updated, ret, selected, attempted,
                   failed, finalizes, seenAtFinalize, staleBefore, endedAt, remote, prior,
                   listing, task, counts, fetchFailed, committed, startState, kills,
                   startDisk, prev>>

\* download lines 152-164: update_item(self.name, "repos", new_state) and the
\* return of the new state and the ConnectorResult.
GhCommit ==
    /\ pc = "gather"
    /\ cur = "github"
    /\ pending # EmptyDict
    /\ lock = 0
    /\ sm' = UpdateItem(sm, "github", "repos", pending)
    /\ file' = Save(sm', file)
    /\ fileExists' = TRUE
    /\ committed' = {"repos"}
    /\ newState' = pending
    /\ result' = [success |-> TRUE, items_synced |-> Cardinality(DOMAIN task),
                  items_skipped |-> Cardinality(DOMAIN listing \ DOMAIN task),
                  valid |-> TRUE]
    /\ updated' = (Cardinality(DOMAIN task) > 0)
    /\ pc' = "finalize"
    /\ UNCHANGED <<extVars, now, smVars, env, queue, cur, ret, selected, attempted, failed,
                   finalizes, seenAtFinalize, staleBefore, endedAt, remote, disk, prior,
                   listing, task, pending, counts, fetched, fetchFailed, written,
                   startState, kills, startDisk, prev>>

\* Between runs a repository is created or pushed to: its pushedAt grows.
GhPush ==
    /\ pc = "idle"
    /\ env = {"github"}
    /\ \E n \in Repos :
         /\ remote[n] < MaxVersion
         /\ remote' = [remote EXCEPT ![n] = remote[n] + 1]
         /\ prev' = Changed(prev, {n})
    /\ UNCHANGED <<extVars, coreVars, smVars, orchVars, disk, prior, listing, task, pending,
                   counts, newState, result, fetched, fetchFailed, committed, written,
                   startState, kills, startDisk>>

InitGh ==
    /\ env = {"github"}
    /\ remote \in [Repos -> {0, 1}]
    /\ disk = EmptyDict

---------------------------------------------------------------------------
(* GmailConnector, src/src/sync/connectors/gmail.py, with a non-empty       *)
(* allow-list.  The remote holds, per message, the day it arrived (0: no    *)
(* such message) and whether its sender passes the allow-list.  A date is   *)
(* the number of its day, today being day now + 1, and 0 stands for the     *)
(* empty string.  The artifacts are modelled by the bag of the messages     *)
(* appended to the per-date files: message -> number of times written.      *)

Msgs == 1..NumMsgs

Today == now + 1

\* messages.list with the query: all messages, or those of the day "after"
\* and later when the query has an after: term
ListMessages(after) ==
    {m \in Msgs : remote[m].date > 0 /\ (after = 0 \/ remote[m].date >= after)}

\* download lines 161-169: read the last sync date from the state and build
\* the query.
MailStart ==
    /\ env = {"gmail"}
    /\ \A m \in DOMAIN disk : disk[m] < MaxAppends
    /\ RunReset
    /\ UNCHANGED disk
    /\ cur' = "gmail"
    /\ prior' = SMGet(Load, "gmail")
    /\ listing' = [after |-> Get(prior', "last_sync_date", 0)]
    /\ task' = EmptyDict
    /\ newState' = EmptyDict
    /\ pc' = "gather"

\* download lines 171-227: list the messages of the query, fetch each one,
\* keep those of allowed senders, append them to the per-date files and build
\* the new state; return early when the list is empty.
MailFetch ==
    /\ pc = "gather"
    /\ cur = "gmail"
    /\ pending = EmptyDict
    /\ \E list_ok \in BOOLEAN :
         LET messages == IF list_ok THEN ListMessages(listing.after) ELSE {}
         IN  IF messages = {}
             THEN /\ newState' = prior
                  /\ result' = [success |-> TRUE, items_synced |-> 0, items_skipped |-> 0,
                                valid |-> TRUE]
                  /\ pc' = "finalize"
                  /\ UNCHANGED <<disk, pending, counts, fetched, fetchFailed, written>>
             ELSE \E fetch_failed \in SUBSET messages :
                    LET got == messages \ fetch_failed
                        allowed_messages == {m \in got : remote[m].allowed}
                        filtered_count == Cardinality(got \ allowed_messages)
                    IN  /\ disk' = AppendMessages(disk, allowed_messages)
                        /\ pending' = [last_sync_ts |-> now, last_sync_date |-> Today,
                                       message_count |-> Get(prior, "message_count", 0)
                                                         + Cardinality(allowed_messages)]
                        /\ counts' = [synced |-> Cardinality(allowed_messages),
                                      skipped |-> filtered_count]
                        /\ fetched' = messages
                        /\ fetchFailed' = fetch_failed
                        /\ written' = allowed_messages
                        /\ UNCHANGED <<newState, result, pc>>
    /\ UNCHANGED <<extVars, coreVars, smVars, env, queue, cur, updated, ret, selected, attempted,
                   failed, finalizes, seenAtFinalize, staleBefore, endedAt, remote, prior,
                   listing, task, committed, startState, kills, startDisk, prev>>

\* download lines 229-238: update_item(self.name, "sync", new_state) and the
\* return of the new state and the ConnectorResult.
MailCommit ==
    /\ pc = "gather"
    /\ cur = "gmail"
    /\ pending # EmptyDict
    /\ lock = 0
    /\ sm' = UpdateItem(sm, "gmail", "sync", pending)
    /\ file' = Save(sm', file)
    /\ fileExists' = TRUE
    /\ committed' = {"sync"}
    /\ newState' = pending
    /\ result' = [success |-> TRUE, items_synced |-> counts.synced,
                  items_skipped |-> counts.skipped, valid |-> TRUE]
    /\ updated' = (counts.synced > 0)
    /\ pc' = "finalize"
    /\ UNCHANGED <<extVars, now, smVars, env, queue, cur, ret, selected, attempted, failed,
                   finalizes, seenAtFinalize, staleBefore, endedAt, remote, disk, prior,
                   listing, task, pending, counts, fetched, fetchFailed, written,
                   startState, kills, startDisk, prev>>

\* Between runs a message arrives, dated today.
MailArrive ==
    /\ pc = "idle"
    /\ env = {"gmail"}
    /\ \E m \in Msgs, allowed \in BOOLEAN :
         /\ remote[m].date = 0
         /\ remote' = [remote EXCEPT ![m] = [date |-> Today, allowed |-> allowed]]
         /\ prev' = Changed(prev, {m})
    /\ UNCHANGED <<extVars, coreVars, smVars, orchVars, disk, prior, listing, task, pending,
                   counts, newState, result, fetched, fetchFailed, committed, written,
                   startState, kills, startDisk>>

\* Between the runs of the mail connector a day passes.
DayPasses ==
    /\ pc = "idle"
    /\ env = {"gmail"}
    /\ Tick

InitMail ==
    /\ env = {"gmail"}
    /\ remote \in [Msgs -> {[date |-> 0, allowed |-> FALSE],
                            [date |-> 1, allowed |-> TRUE],
                            [date |-> 1, allowed |-> FALSE]}]
    /\ disk = EmptyDict

---------------------------------------------------------------------------
InitConn ==
    /\ ExtIdle
    /\ file = EmptyState
    /\ fileExists = FALSE
    /\ sm = EmptyState
    /\ now = 0
    /\ SMQuiet
    /\ OrchIdle
    /\ ConnQuiet
    /\ \/ InitGd
       \/ InitChat
       \/ InitGh
       \/ InitMail

NextConn ==
    \/ GdStart
    \/ \E d \in Docs : DocExport(d)
    \/ \E d \in Docs : DocCommit(d)
    \/ GdGather
    \/ GdRemoteChange
    \/ ChatStart
    \/ \E ch \in Chans : ChanSync(ch)
    \/ \E ch \in Chans : ChanCommit(ch)
    \/ ChatGather
    \/ ChatPost
    \/ GhStart
    \/ GhFetch
    \/ GhCommit
    \/ GhPush
    \/ MailStart
    \/ MailFetch
    \/ MailCommit
    \/ MailArrive
    \/ DayPasses
    \/ ConnFinalize
    \/ ConnDone
    \/ Kill

SpecConn == InitConn /\ [][NextConn]_vars

---------------------------------------------------------------------------
(* Properties of the connectors' downloads.                                 *)

\* The download of connector c has returned to sync_all_async.
Returned(c) == cur = c /\ pc \in {"finalize", "ended"}

\* The entries of the connector's source when the run started.
StartEntries == SMGet(startState, cur)

\* The entry an item's update_item call of this run wrote.
CommittedEntry(i) == IF cur = "gdrive" THEN DocEntry(pending[i]) ELSE pending[i]

\* The items of the run's source, processed or not.
Items == IF cur = "gdrive" THEN Docs ELSE Chans

\* At every moment of a run, so whenever it is killed, the persisted state
\* holds the new entries of exactly the update_item calls that have returned.
ProgressPersisted ==
    (cur \in {"gdrive", "slack"} /\ pc \in {"gather", "finalize", "ended"})
        => \A i \in Items :
              IF i \in committed
              THEN i \in DOMAIN Entries(cur) /\ Entries(cur)[i] = CommittedEntry(i)
              ELSE /\ i \in DOMAIN Entries(cur) <=> i \in DOMAIN StartEntries
                   /\ i \in DOMAIN StartEntries => Entries(cur)[i] = StartEntries[i]

\* The run after a killed one has fetched exactly what the killed run left
\* and what changed since, and every listed item has an entry.
ResumedRunCompletes ==
    /\ fetched = (prev.owed \cup prev.changed) \cap DOMAIN listing
    /\ DOMAIN listing \subseteq DOMAIN Entries(cur)

C6_DocDiffSync ==
    (Returned("gdrive") /\ fetchFailed = {})
        => LET differs == {d \in DOMAIN listing :
                              d \notin DOMAIN prior
                              \/ prior[d].modified_time # listing[d]}
           IN  /\ fetched = differs
               /\ result.items_synced = Cardinality(differs)
               /\ result.items_skipped = Cardinality(DOMAIN listing \ differs)
               /\ DOMAIN newState = DOMAIN listing
               /\ \A d \in DOMAIN listing :
                     newState[d] = IF d \in differs
                                   THEN [name |-> d, modified_time |-> listing[d]]
                                   ELSE prior[d]
               /\ written = differs
               /\ \A d \in Docs \ differs : disk[d] = startDisk[d]
               /\ \A d \in differs : disk[d] = listing[d]

\* A run with an unchanged document, skipped, and a changed one, fetched.
C6_Witness ==
    /\ Returned("gdrive")
    /\ fetchFailed = {}
    /\ result.items_skipped >= 1
    /\ \E d \in fetched : d \in DOMAIN prior /\ disk[d] # startDisk[d]

\* C7: CodeHostConnector through sync_all, in a run after one that persisted
\* repository state: a repository whose pushedAt equals the persisted
\* pushed_at is not re-fetched, keeps its cached summary and is counted as
\* skipped; only the new and the changed ones are fetched and counted synced.
C7_UnchangedRepoNotRefetched ==
    (Returned("github") /\ PrevReposNested(StartEntries) # EmptyDict)
        => LET persisted == PrevReposNested(StartEntries)
               same == {n \in DOMAIN listing :
                           n \in DOMAIN persisted
                           /\ persisted[n].pushed_at = listing[n]}
           IN  /\ fetched = DOMAIN listing \ same
               /\ \A n \in same : disk[n] = persisted[n].readme_summary
               /\ result.items_skipped = Cardinality(same)
               /\ result.items_synced = Cardinality(DOMAIN listing \ same)

\* C8: MailConnector through sync_all: a run after one that recorded a last
\* sync date queries only the messages after that date, so with an unchanged
\* inbox it syncs nothing and leaves the artifacts as they were.
C8_QueryAfterLastSync ==
    (Returned("gmail") /\ "sync" \in DOMAIN StartEntries)
        => /\ listing.after = StartEntries["sync"].last_sync_date
           /\ prev.kind = "done" => (result.items_synced = 0 /\ disk = startDisk)

\* The second of two runs against an unchanged remote syncs nothing, fetches
\* nothing, and leaves the item states and the artifacts as they were.
SecondRunIdle ==
    /\ result.items_synced = 0
    /\ fetched = {}
    /\ Entries(cur) = StartEntries
    /\ disk = startDisk

Token(entries, i) ==
    IF cur = "gdrive"
    THEN Get(Get(entries, i, EmptyDict), "modified_time", None)
    ELSE LastTs(entries, i)

\* The token a successful fetch of item i in this run commits.
NewToken(i) ==
    IF cur = "gdrive"
    THEN listing[i]
    ELSE Max(History(i, LastTs(prior, i)) \cup {LastTs(prior, i)})

---------------------------------------------------------------------------
(* SpecRL: one RateLimiter shared by concurrent callers of acquire().       *)
(* slack.py:133-155 with a burst capacity, gdrive.py:170-191 and            *)
(* gmail.py:241-262 with the rate as capacity.  tokens and wait_time are    *)
(* floats in the code; here a token is TokenUnits units and a clock tick    *)
(* is the time in which one unit is refilled, 1 / (rate * TokenUnits)       *)
(* second, so that elapsed * rate is the number of ticks elapsed and        *)
(* (1 - tokens) / rate is TokenUnits - tokens ticks.                        *)

TokenUnits == 2
RlMaxTime == 6

SLACK_RATE_LIMIT == 4
SLACK_BURST_CAPACITY == 10
GDRIVE_RATE_LIMIT == 5
GMAIL_RATE_LIMIT == 5

\* No sync_all run, no StateManager caller and no download in progress.
ProgramIdle ==
    /\ file = EmptyState
    /\ fileExists = FALSE
    /\ sm = EmptyState
    /\ now = 0
    /\ SMQuiet
    /\ env = {}
    /\ OrchIdle
    /\ ConnIdle
    /\ saveErr = {}
    /\ credited = {}
    /\ gdExcluded = {}
    /\ nsCall = NoCall

Min(a, b) == IF a < b THEN a ELSE b

\* slack.py line 138: burst_capacity or rate_per_second * 2 (0 stands for a
\* burst_capacity that is None or zero)
MaxTokens(rate_per_second, burst_capacity) ==
    IF burst_capacity # 0 THEN burst_capacity ELSE rate_per_second * 2

\* A refill that is not capped
RefillUncapped(tokens, elapsed, max_tokens) == tokens + elapsed

\* Line 147 (gdrive.py:183): min(max_tokens, tokens + elapsed * rate), in units
Refill(tokens, elapsed, max_tokens) == Min(max_tokens, tokens + elapsed)

\* Line 150 (gdrive.py:186): wait_time = (1 - tokens) / rate, in ticks
WaitTime(tokens) == TokenUnits - tokens

\* The calls a behaviour makes: the burst and three more.
RlMaxCalls == rlCap + 3

RlInFlight == Cardinality({t \in Tasks : rlPc[t] # "idle"})

\* A caller calls acquire() and waits for the lock.
RlCall(t) ==
    /\ rlPc[t] = "idle"
    /\ rlServed + RlInFlight < RlMaxCalls
    /\ rlPc' = [rlPc EXCEPT ![t] = "waiting"]
    /\ UNCHANGED <<progVars, pxVars, alVars,
                   rlCap, rlTokens, rlLast, rlNow, rlWake, rlServed, rlPrompt>>

\* acquire() lines 144-155 up to the sleep: the lock is free (nobody sleeps
\* inside it), the bucket is refilled and either a token is taken or the
\* caller goes to sleep holding the lock.
RlAcquire(t) ==
    /\ rlPc[t] = "waiting"
    /\ \A u \in Tasks : rlPc[u] # "sleeping"
    /\ LET elapsed == rlNow - rlLast
           tokens == Refill(rlTokens, elapsed, rlCap * TokenUnits)
       IN  /\ rlLast' = rlNow
           /\ IF tokens < TokenUnits
              THEN /\ rlTokens' = tokens
                   /\ rlWake' = rlNow + WaitTime(tokens)
                   /\ rlPc' = [rlPc EXCEPT ![t] = "sleeping"]
                   /\ UNCHANGED rlServed
              ELSE /\ rlTokens' = tokens - TokenUnits
                   /\ rlPc' = [rlPc EXCEPT ![t] = "idle"]
                   /\ rlServed' = rlServed + 1
                   /\ UNCHANGED rlWake
    /\ UNCHANGED <<progVars, pxVars, alVars,
                   rlCap, rlNow, rlPrompt>>

\* acquire() lines 151-152: the sleep is over, tokens = 0, the lock is
\* released and acquire() returns.
RlWakeUp(t) ==
    /\ rlPc[t] = "sleeping"
    /\ rlNow >= rlWake
    /\ rlTokens' = 0
    /\ rlPc' = [rlPc EXCEPT ![t] = "idle"]
    /\ rlServed' = rlServed + 1
    /\ UNCHANGED <<progVars, pxVars, alVars,
                   rlCap, rlLast, rlNow, rlWake, rlPrompt>>

\* The event loop's clock advances by one tick.
RlTick ==
    /\ rlNow < RlMaxTime
    /\ rlNow' = rlNow + 1
    /\ rlPrompt' = (rlPrompt /\ \E t \in Tasks : rlPc[t] = "sleeping" /\ rlNow < rlWake)
    /\ UNCHANGED <<progVars, pxVars, alVars,
                   rlCap, rlTokens, rlLast, rlPc, rlWake, rlServed>>

\* RateLimiter.__init__: the bucket starts full, last_update is the clock.
InitRL ==
    /\ ProgramIdle
    /\ MoreIdle
    /\ rlCap \in {MaxTokens(SLACK_RATE_LIMIT, SLACK_BURST_CAPACITY),
                   GDRIVE_RATE_LIMIT, GMAIL_RATE_LIMIT}
    /\ rlTokens = rlCap * TokenUnits
    /\ rlLast = 0
    /\ rlNow = 0
    /\ rlPc = [t \in Tasks |-> "idle"]
    /\ rlWake = 0
    /\ rlServed = 0
    /\ rlPrompt = TRUE
    /\ PxIdle
    /\ AlIdle

NextRL ==
    \/ \E t \in Tasks : RlCall(t)
    \/ \E t \in Tasks : RlAcquire(t)
    \/ \E t \in Tasks : RlWakeUp(t)
    \/ RlTick

SpecRL == InitRL /\ [][NextRL]_vars

\* C12: in every reachable state of a RateLimiter, whatever the interleaving
\* of acquire() calls and the times elapsed between them, the token count is
\* at least 0 and at most the capacity.
C12_TokensWithinCapacity ==
    /\ 0 <= rlTokens
    /\ rlTokens <= rlCap * TokenUnits

\* The whole burst has been served, time has passed, and a caller sleeps
\* inside acquire() on a bucket holding a fraction of a token.
C12_Witness ==
    /\ rlServed >= rlCap
    /\ rlTokens > 0
    /\ rlLast > 0
    /\ \E t \in Tasks : rlPc[t] = "sleeping"

\* C13: from a full bucket of capacity c, the k-th acquire() beyond the burst
\* (k = 1, 2, 3) returns no earlier than k / rate after the start, and when
\* the c + 3 calls are made back to back (no time passes except in the
\* sleeps of acquire) they have all returned at exactly 3 / rate.
C13_BurstPlusThreeWaits ==
    /\ \A k \in 1..3 : rlServed >= rlCap + k => rlNow >= k * TokenUnits
    /\ (rlPrompt /\ rlServed = rlCap + 3) => rlNow = 3 * TokenUnits

---------------------------------------------------------------------------
(* SpecPx: _is_in_excluded_folder (gdrive.py:478-521) with path patterns    *)
(* only.  A string is a sequence of one-character strings.  The document's  *)
(* parent chain is given by the names of its folders from the root down;    *)
(* _resolve_folder_path joins them with "/".                                *)

MaxSegs == 3
MaxSegLen == 2

Letters == {"a", "A", "s"}

\* The folder names tried: 1..MaxSegLen letters
Names == UNION {[1..n -> Letters] : n \in 1..MaxSegLen}

\* 1..n names
NameSeqs(n) == UNION {[1..k -> Names] : k \in 1..n}

\* str.lower()
LowerChar(c) ==
    CASE c = "A" -> "a"
      [] c = "C" -> "c"
      [] OTHER -> c

Lower(str) == [i \in DOMAIN str |-> LowerChar(str[i])]

\* "/".join(names): _resolve_folder_path lines 455-459, the configured
\* pattern as the user wrote it
RECURSIVE Join(_)
Join(names) ==
    IF names = <<>> THEN <<>>
    ELSE IF Len(names) = 1 THEN names[1]
    ELSE names[1] \o <<"/">> \o Join(Tail(names))

\* str.startswith(prefix)
StartsWith(str, prefix) ==
    Len(prefix) <= Len(str) /\ SubSeq(str, 1, Len(prefix)) = prefix

\* The 0-based positions at which sub occurs in str
Occurrences(str, sub) ==
    {i \in 0..(Len(str) - Len(sub)) : SubSeq(str, i + 1, i + Len(sub)) = sub}

\* str.find(sub): the first occurrence, -1 when there is none
Find(str, sub) ==
    LET occ == Occurrences(str, sub)
    IN  IF occ = {} THEN -1 ELSE CHOOSE i \in occ : \A j \in occ : i <= j

\* str[k:]
SliceFrom(str, k) == SubSeq(str, k + 1, Len(str))

\* Lines 508-519, the body of the for loop for one lower-cased pattern
MatchesExcluded(folder_path_lower, excluded) ==
    \/ excluded = folder_path_lower
    \/ StartsWith(folder_path_lower, excluded \o <<"/">>)
    \/ /\ Find(folder_path_lower, <<"/">> \o excluded) # -1
       /\ LET idx == Find(folder_path_lower, <<"/">> \o excluded)
              rest == SliceFrom(folder_path_lower, idx + Len(excluded) + 1)
          IN  rest = <<>> \/ StartsWith(rest, <<"/">>)

\* _is_in_excluded_folder for a document whose parent resolves to
\* folder_path, with GDRIVE_EXCLUDED_FOLDERS = [f.lower() for f in patterns]
\* (line 43) and no excluded folder ids
IsInExcludedFolder(folder_path, patterns) ==
    IF patterns = {} \/ folder_path = <<>>
    THEN FALSE
    ELSE \E f \in patterns : MatchesExcluded(Lower(folder_path), Lower(f))

\* The call _is_in_excluded_folder(doc, folder_cache)
PxCheck ==
    /\ pxResult = "none"
    /\ pxResult' = IF IsInExcludedFolder(Join(pxFolders), {Join(pxPattern)})
                   THEN "excluded" ELSE "kept"
    /\ UNCHANGED <<progVars, rlVars, alVars,
                   pxFolders, pxPattern>>

InitPx ==
    /\ ProgramIdle
    /\ MoreIdle
    /\ RlIdle
    /\ pxFolders \in NameSeqs(MaxSegs)
    /\ pxPattern \in NameSeqs(MaxSegs - 1)
    /\ pxResult = "none"
    /\ AlIdle

NextPx == PxCheck

SpecPx == InitPx /\ [][NextPx]_vars

\* The pattern, compared case-insensitively, equals a contiguous run of whole
\* segments of the path.
SegmentRun(folders, pattern) ==
    \E i \in 1..Len(folders) :
        /\ i + Len(pattern) - 1 <= Len(folders)
        /\ \A j \in 1..Len(pattern) : Lower(folders[i + j - 1]) = Lower(pattern[j])

\* C14: a document is excluded by path iff the pattern equals a contiguous
\* run of whole path segments of its resolved folder path, at any depth and
\* for any occurrence, compared case-insensitively.
C14_SegmentExact ==
    pxResult # "none" => (pxResult = "excluded" <=> SegmentRun(pxFolders, pxPattern))

\* C14, the direction the code keeps: a document excluded by path has the
\* pattern as a run of whole segments of its folder path.
C14_ExcludedOnlyOnSegments ==
    pxResult = "excluded" => SegmentRun(pxFolders, pxPattern)

---------------------------------------------------------------------------
(* SpecGdx: repeated sync_all runs with only gdrive enabled and             *)
(* GDRIVE_EXCLUDED_FOLDERS configured.  Between runs documents are created  *)
(* and modified, and folders are moved or renamed so that a document comes  *)
(* to lie in an excluded folder, or no longer does; its modifiedTime does   *)
(* not change by that.                                                      *)

\* A folder is moved or renamed: _is_in_excluded_folder changes for document d.
GdMove ==
    /\ pc = "idle"
    /\ env = {"gdrive"}
    /\ \E d \in Docs :
         /\ gdExcluded' = IF d \in gdExcluded THEN gdExcluded \ {d}
                                               ELSE gdExcluded \cup {d}
         /\ prev' = Changed(prev, {d})
    /\ UNCHANGED <<coreVars, smVars, orchVars, saveErr, credited, nsCall, unitVars, moreVars,
                   remote,
                   disk, prior, listing, task, pending, counts, newState, result,
                   fetched, fetchFailed, committed, written, startState, kills,
                   startDisk>>

InitGdx ==
    /\ ExtIdle
    /\ file = EmptyState
    /\ fileExists = FALSE
    /\ sm = EmptyState
    /\ now = 0
    /\ SMQuiet
    /\ OrchIdle
    /\ ConnQuiet
    /\ InitGd

NextGdx ==
    \/ GdStart
    \/ \E d \in Docs : DocExport(d)
    \/ \E d \in Docs : DocCommit(d)
    \/ GdGather
    \/ GdRemoteChange
    \/ GdMove
    \/ ConnFinalize
    \/ ConnDone

SpecGdx == InitGdx /\ [][NextGdx]_vars

\* The remote documents that have an entry in prior state and now lie in an
\* excluded folder.
RetroExcluded == {d \in Docs : remote[d] > 0 /\ d \in gdExcluded /\ d \in DOMAIN prior}

\* C15: when a download with exclusions configured has returned, every remote
\* document with an entry in prior state that now lies in an excluded folder
\* has no artifact, whether or not its modifiedTime changed; it was dropped
\* before the modifiedTime comparison, so it was not fetched and is counted
\* neither as synced nor as skipped: the two counts add up to the documents
\* outside excluded folders whose export did not fail.
C15_RetroactiveDeletion ==
    Returned("gdrive") =>
        /\ \A d \in RetroExcluded :
              /\ disk[d] = 0
              /\ d \notin fetched
              /\ d \notin DOMAIN listing
              /\ d \notin DOMAIN newState
        /\ result.items_synced + result.items_skipped
              = Cardinality(({d \in Docs : remote[d] > 0} \ gdExcluded) \ fetchFailed)

\* A run has returned in which a document with an unchanged modifiedTime and
\* an artifact on disk lay in an excluded folder, next to a document that
\* was skipped or synced.
C15_Witness ==
    /\ Returned("gdrive")
    /\ result.items_synced + result.items_skipped >= 1
    /\ \E d \in RetroExcluded :
          /\ prior[d].modified_time = remote[d]
          /\ startDisk[d] # 0
          /\ disk[d] = 0

---------------------------------------------------------------------------
(* Properties of SlackConnector's thread handling, over SpecConn.           *)

\* The replies in the artifact of channel ch.
RepliesOnDisk(ch) == {t \in DOMAIN disk[ch] : remote[ch][t] # 0}

\* Every reply the running download has appended belongs to a top-level
\* message that the history call returned, and is strictly newer than the
\* channel's last_ts at the start of the run.
EmittedRepliesAreNew ==
    (cur = "slack" /\ pc \in {"gather", "finalize", "ended"})
        => \A ch \in Chans : \A t \in RepliesOnDisk(ch) :
              disk[ch][t] > Get(startDisk[ch], t, 0)
                 => /\ t > LastTs(prior, ch)
                    /\ remote[ch][t] \in History(ch, LastTs(prior, ch))

\* No reply was written to its channel's artifact more than once.
NoReplyTwice ==
    env = {"slack"} => \A ch \in Chans : \A t \in RepliesOnDisk(ch) : disk[ch][t] <= 1

---------------------------------------------------------------------------
(* SpecAl: the allow-list of GmailConnector, setup lines 75-88,             *)
(* _is_sender_allowed lines 117-131 and the filter loop of download, lines  *)
(* 197-208, for one fetched message.  Strings are sequences of              *)
(* one-character strings; "c" and "e" stand for two domain names.           *)

Quote == "\""

\* The local parts tried: plain ones and quoted ones holding an "@"
LocalParts ==
    {<<"a">>, <<"A">>,
     <<Quote, "a", "@", "e", Quote>>,
     <<Quote, "a", "@", "c", "@", Quote>>}

DomainNames == {<<"c">>, <<"C">>, <<"e">>}

\* The addresses tried: local@domain, a bare local part, the empty string
SenderEmails ==
    {l \o <<"@">> \o d : l \in LocalParts, d \in DomainNames}
        \cup {<<"a">>, <<"A">>, <<>>}

\* The items of GMAIL_ALLOWED_SENDERS tried
AllowItems == {<<"a", "@", "e">>, <<"A", "@", "C">>, <<"@", "c">>, <<"@", "C">>}

\* str.split("@")[1]: the text between the first "@" and the next one, or
\* the end
SplitAtSecond(str) ==
    LET rest == SliceFrom(str, Find(str, <<"@">>) + 1)
        next == Find(rest, <<"@">>)
    IN  IF next = -1 THEN rest ELSE SubSeq(rest, 1, next)

\* setup lines 76-84: the exact addresses of the allow-list
AllowedEmails(items) ==
    {Lower(i) : i \in {x \in items : ~StartsWith(Lower(x), <<"@">>)}}

\* setup lines 76-88: the domains of the allow-list
AllowedDomains(items, internal) ==
    {SliceFrom(Lower(i), 1) : i \in {x \in items : StartsWith(Lower(x), <<"@">>)}}
        \cup {Lower(d) : d \in internal}

\* _is_sender_allowed, lines 117-131
IsSenderAllowed(sender_email, allowed_emails, allowed_domains) ==
    LET email == Lower(sender_email)
    IN  \/ email \in allowed_emails
        \/ /\ Occurrences(email, <<"@">>) # {}
           /\ SplitAtSecond(email) \in allowed_domains

\* download lines 197-220 for one fetched message: it is kept and appended to
\* its date's file, or filtered_count is incremented.
AlFilter ==
    /\ ~alOutcome.done
    /\ alOutcome' =
          IF IsSenderAllowed(alSender, AllowedEmails(alItems),
                             AllowedDomains(alItems, alInternal))
          THEN [done |-> TRUE, written |-> TRUE, items_synced |-> 1, items_skipped |-> 0]
          ELSE [done |-> TRUE, written |-> FALSE, items_synced |-> 0, items_skipped |-> 1]
    /\ UNCHANGED <<progVars, rlVars, pxVars, alSender, alItems, alInternal>>

\* download line 155 returns early on an empty allow-list
InitAl ==
    /\ ProgramIdle
    /\ MoreIdle
    /\ RlIdle
    /\ PxIdle
    /\ alSender \in SenderEmails
    /\ alItems \in SUBSET AllowItems
    /\ alInternal \in SUBSET {<<"C">>}
    /\ alItems \cup alInternal # {}
    /\ alOutcome = [done |-> FALSE]

NextAl == AlFilter

SpecAl == InitAl /\ [][NextAl]_vars

\* The domain of an address: what follows its last "@"
DomainOf(address) ==
    LET occ == Occurrences(address, <<"@">>)
    IN  SliceFrom(address, (CHOOSE i \in occ : \A j \in occ : j <= i) + 1)

\* The sender passes the allow-list: its lower-cased address is one of the
\* exact addresses, or the lower-cased domain of the address is one of the
\* domains.
OnAllowList(address, items, internal) ==
    \/ Lower(address) \in AllowedEmails(items)
    \/ /\ Occurrences(address, <<"@">>) # {}
       /\ Lower(DomainOf(address)) \in AllowedDomains(items, internal)

\* C17: a fetched message is written to an artifact iff its sender passes the
\* allow-list, whatever the letter case of the sender; a message that does
\* not pass is counted in items_skipped and is not written.
C17_AllowListExact ==
    alOutcome.done =>
        /\ alOutcome.written <=> OnAllowList(alSender, alItems, alInternal)
        /\ ~OnAllowList(alSender, alItems, alInternal)
              => (alOutcome.items_skipped = 1 /\ ~alOutcome.written)

\* C17 for the addresses with at most one "@": there the code's decision is
\* the allow-list's.
C17_AllowListOnPlainAddresses ==
    (alOutcome.done /\ Cardinality(Occurrences(alSender, <<"@">>)) <= 1) =>
        /\ alOutcome.written <=> OnAllowList(alSender, alItems, alInternal)
        /\ ~alOutcome.written => alOutcome.items_skipped = 1

---------------------------------------------------------------------------
(* StateManager.get and the state argument of download, over SpecConn.      *)
(* get returns self.state.get(source, {}): for a source the state holds it  *)
(* is the dict stored in self.state, the one update_item later writes into  *)
(* (self.state[source][item_id] = item_state); for a source the state does   *)
(* not hold it is a new empty dict that nothing else refers to.             *)

\* What the dict handed to download as `state` holds now.
StateArg ==
    IF cur \in DOMAIN startState THEN SMGet(sm, cur) ELSE EmptyDict

\* The connector's download is running or has returned to sync_all_async.
InDownload == cur # "none" /\ pc \in {"gather", "finalize"}

\* C20: the map handed to download as prior state is never changed by a later
\* update_item: throughout the run it holds what the state held when the
\* download started, and it is empty for a source the state did not hold.
C20_PriorIsSnapshot ==
    InDownload =>
        /\ StateArg = prior
        /\ cur \notin DOMAIN startState => StateArg = EmptyDict

\* The part of C20 that the code keeps: until the first update_item of the
\* run the map is the prior state, and for an unseen source it stays empty.
C20_PriorUntilFirstUpdate ==
    (InDownload /\ (committed = {} \/ cur \notin DOMAIN startState)) =>
        StateArg = prior

---------------------------------------------------------------------------
(* SpecIso: one sync_all_async run over two connectors whose downloads fan  *)
(* out item tasks with asyncio.gather.  gather is called without    *)
(* return_exceptions: the first exception of a task is raised in download   *)
(* at once, and the other tasks are neither awaited nor cancelled.  The run *)
(* is awaited from the API's event loop (api.py:64), which keeps running    *)
(* after sync_all_async returned, or started by asyncio.run (sync_all),     *)
(* which cancels what is left when sync_all_async returned.                 *)

IsoConnectors == {"slack", "gdrive"}
IsoItems == 1..NumTasks
IsoLive == {"todo", "fetched", "written"}

\* The item tasks of connector c
IsoTasksOf(c) == {<<c, i>> : i \in IsoItems}

\* The event loop runs item tasks while sync_all_async is suspended in a
\* download, and while its caller goes on after it returned.
IsoLoopRuns == pc \in {"gather", "ended"}

\* sync_all_async lines 69-85
IsoStart ==
    /\ pc = "idle"
    /\ sm' = Load
    /\ queue' = SelectConnectors(<<>>)
    /\ selected' = IsoConnectors
    /\ pc' = "loop"
    /\ UNCHANGED <<extVars, file, fileExists, now, smVars, env, cur, updated, ret, attempted,
                   failed, finalizes, seenAtFinalize, staleBefore, endedAt, connVars>>

\* sync_all_async lines 87-101 and download up to the gather call: setup
\* succeeds, download creates one task per item and awaits gather.
IsoEnter ==
    /\ pc = "loop"
    /\ queue # <<>>
    /\ cur' = Head(queue)
    /\ queue' = Tail(queue)
    /\ attempted' = attempted \cup {Head(queue)}
    /\ task' = [t \in DOMAIN task \cup IsoTasksOf(Head(queue)) |->
                  IF t \in DOMAIN task THEN task[t] ELSE "todo"]
    /\ pc' = "gather"
    /\ UNCHANGED <<extVars, coreVars, smVars, env, updated, ret, selected, failed, finalizes,
                   seenAtFinalize, staleBefore, endedAt, remote, disk, prior, listing,
                   pending, counts, newState, result, fetched, fetchFailed, committed,
                   written, startState, kills, startDisk, prev>>

\* process_doc / process_channel: the remote fetch of the item
ProcessFetch(t) ==
    /\ IsoLoopRuns
    /\ t \in DOMAIN task
    /\ task[t] = "todo"
    /\ task' = [task EXCEPT ![t] = "fetched"]
    /\ fetched' = fetched \cup {t}
    /\ UNCHANGED <<extVars, coreVars, smVars, orchVars, remote, disk, prior, listing, pending,
                   counts, newState, result, fetchFailed, committed, written, startState,
                   kills, startDisk, prev>>

\* process_doc / process_channel: the artifact is written (md_path.write_text,
\* _append_messages_to_md), or the write raises.
ProcessWrite(t) ==
    /\ IsoLoopRuns
    /\ t \in DOMAIN task
    /\ task[t] = "fetched"
    /\ \/ /\ disk' = Put(disk, t, 1)
          /\ written' = written \cup {t}
          /\ task' = [task EXCEPT ![t] = "written"]
       \/ /\ task' = [task EXCEPT ![t] = "raised"]
          /\ UNCHANGED <<disk, written>>
    /\ UNCHANGED <<extVars, coreVars, smVars, orchVars, remote, prior, listing, pending,
                   counts, newState, result, fetched, fetchFailed, committed, startState,
                   kills, startDisk, prev>>

\* process_doc / process_channel: update_item for the item; _save may raise.
ProcessCommit(t) ==
    /\ IsoLoopRuns
    /\ t \in DOMAIN task
    /\ task[t] = "written"
    /\ lock = 0
    /\ sm' = UpdateItem(sm, t[1], t[2], [token |-> 1])
    /\ \/ /\ file' = Save(sm', file)
          /\ fileExists' = TRUE
          /\ committed' = committed \cup {t}
          /\ task' = [task EXCEPT ![t] = "done"]
       \/ /\ task' = [task EXCEPT ![t] = "raised"]
          /\ UNCHANGED <<file, fileExists, committed>>
    /\ UNCHANGED <<extVars, now, smVars, orchVars, remote, disk, prior, listing, pending,
                   counts, newState, result, fetched, fetchFailed, written, startState,
                   kills, startDisk, prev>>

\* gather re-raises the first exception of a task in download; the except
\* clause of sync_all_async (lines 106-107) goes on with the next connector.
IsoGatherRaise ==
    /\ pc = "gather"
    /\ \E t \in IsoTasksOf(cur) : task[t] = "raised"
    /\ failed' = failed \cup {cur}
    /\ cur' = "none"
    /\ pc' = "loop"
    /\ UNCHANGED <<extVars, coreVars, smVars, env, queue, updated, ret, selected, attempted,
                   finalizes, seenAtFinalize, staleBefore, endedAt, connVars>>

\* gather returns when every task has returned; download returns its result.
IsoGatherReturn ==
    /\ pc = "gather"
    /\ \A t \in IsoTasksOf(cur) : task[t] = "done"
    /\ updated' = TRUE
    /\ cur' = "none"
    /\ pc' = "loop"
    /\ UNCHANGED <<extVars, coreVars, smVars, env, queue, ret, selected, attempted, failed,
                   finalizes, seenAtFinalize, staleBefore, endedAt, connVars>>

\* sync_all_async lines 109-110: finalize() and return updated
IsoFinalize ==
    /\ pc = "loop"
    /\ queue = <<>>
    /\ lock = 0
    /\ sm' = FinalizeState(sm)
    /\ file' = Save(sm', file)
    /\ fileExists' = TRUE
    /\ finalizes' = finalizes + 1
    /\ ret' = IF updated THEN "true" ELSE "false"
    /\ pc' = "ended"
    /\ UNCHANGED <<extVars, now, smVars, env, queue, cur, updated, selected, attempted, failed,
                   seenAtFinalize, staleBefore, endedAt, connVars>>

\* asyncio.run (sync_all, line 121) cancels the tasks that are left when
\* sync_all_async has returned.
IsoCancel ==
    /\ pc = "ended"
    /\ \E t \in DOMAIN task : task[t] \in IsoLive
    /\ task' = [t \in DOMAIN task |-> IF task[t] \in IsoLive THEN "cancelled" ELSE task[t]]
    /\ UNCHANGED <<extVars, coreVars, smVars, orchVars, remote, disk, prior, listing, pending,
                   counts, newState, result, fetched, fetchFailed, committed, written,
                   startState, kills, startDisk, prev>>

InitIso ==
    /\ ExtIdle
    /\ file = EmptyState
    /\ fileExists = FALSE
    /\ sm = EmptyState
    /\ now = 0
    /\ SMQuiet
    /\ env = IsoConnectors
    /\ OrchIdle
    /\ ConnIdle

NextIso ==
    \/ IsoStart
    \/ IsoEnter
    \/ \E t \in DOMAIN task : ProcessFetch(t)
    \/ \E t \in DOMAIN task : ProcessWrite(t)
    \/ \E t \in DOMAIN task : ProcessCommit(t)
    \/ IsoGatherRaise
    \/ IsoGatherReturn
    \/ IsoFinalize
    \/ IsoCancel

SpecIso == InitIso /\ [][NextIso]_vars

\* C21: a task of connector c fetches, writes an artifact or commits an item
\* state only while the download of c is running: never after that download
\* has returned or raised and the orchestrator has moved on.
C21_NoWorkAfterDownloadLeft ==
    [][\A t \in DOMAIN task :
          (task'[t] # task[t] /\ task'[t] \in {"fetched", "written", "done"})
              => (pc = "gather" /\ cur = t[1])]_vars

---------------------------------------------------------------------------
(* SpecUc: the users dict of one SlackConnector download.  It is loaded     *)
(* from the cache file, shared by the concurrent process_channel tasks and  *)
(* guarded by users_lock.  _get_user_info_async holds the lock while it     *)
(* tests the dict and while it stores a result, and not while it awaits the *)
(* remote users_info call in between.                                       *)

NumUsers == 2
MaxRefs == 2
UserIds == 1..NumUsers

\* Lines 260-262 (and 313, 357): is the user id in the dict?
CacheHit(users, user_id) == user_id \in users

\* A channel task meets a reference to user u: lines 311-315 / 355-358 and
\* the locked test of _get_user_info_async, lines 260-262.
UcCheck(t, u) ==
    /\ ucPc[t] = "idle"
    /\ ucLeft[t] > 0
    /\ IF CacheHit(ucUsers, u)
       THEN /\ ucLeft' = [ucLeft EXCEPT ![t] = @ - 1]
            /\ UNCHANGED <<ucPc, ucArg>>
       ELSE /\ ucPc' = [ucPc EXCEPT ![t] = "miss"]
            /\ ucArg' = [ucArg EXCEPT ![t] = u]
            /\ UNCHANGED ucLeft
    /\ UNCHANGED <<oldVars, ucRest, ucUsers, ucLookups>>

\* Line 265: the remote call client.users_info(user=user_id) is made.
UcInvoke(t) ==
    /\ ucPc[t] = "miss"
    /\ ucPc' = [ucPc EXCEPT ![t] = "calling"]
    /\ ucLookups' = [ucLookups EXCEPT ![ucArg[t]] = @ + 1]
    /\ UNCHANGED <<oldVars, ucRest, ucUsers, ucArg, ucLeft>>

\* Lines 266-280: the call returns and the info is stored under the lock, or
\* it raises SlackApiError and a default is returned without being stored.
UcReturn(t) ==
    /\ ucPc[t] = "calling"
    /\ \/ ucUsers' = ucUsers \cup {ucArg[t]}
       \/ UNCHANGED ucUsers
    /\ ucPc' = [ucPc EXCEPT ![t] = "idle"]
    /\ ucArg' = [ucArg EXCEPT ![t] = 0]
    /\ ucLeft' = [ucLeft EXCEPT ![t] = @ - 1]
    /\ UNCHANGED <<oldVars, ucRest, ucLookups>>

InitUc ==
    /\ ProgramIdle
    /\ RlIdle
    /\ PxIdle
    /\ AlIdle
    /\ MoreIdleBut("uc")
    /\ ucUsers \in SUBSET UserIds
    /\ ucPc = [t \in Tasks |-> "idle"]
    /\ ucArg = [t \in Tasks |-> 0]
    /\ ucLeft = [t \in Tasks |-> MaxRefs]
    /\ ucLookups = [u \in UserIds |-> 0]

NextUc ==
    \/ \E t \in Tasks, u \in UserIds : UcCheck(t, u)
    \/ \E t \in Tasks : UcInvoke(t)
    \/ \E t \in Tasks : UcReturn(t)

SpecUc == InitUc /\ [][NextUc]_vars

\* C22: within one download the remote user-info lookup is invoked at most
\* once per user id, whatever the interleaving of the channel tasks.
C22_LookupOncePerUser ==
    \A u \in DOMAIN ucLookups : ucLookups[u] <= 1

---------------------------------------------------------------------------
(* SpecRt: one _call_with_retry call made by a fetch of the Slack connector *)
(* (_get_messages_with_threads_async and the like), against a remote API    *)
(* that answers each call with a result, with a "ratelimited" error that    *)
(* may carry a Retry-After header, or with another SlackApiError.           *)

MAX_RETRIES == 3
MaxHint == 3
RetryAfterHints == 1..MaxHint

\* The wait that ignores the Retry-After header
RetryAfterBackoffOnly(hint, attempt) == 2 ^ attempt

\* Line 173: int(e.response.headers.get("Retry-After", 2 ** attempt))
RetryAfter(hint, attempt) == IF hint = None THEN 2 ^ attempt ELSE hint

\* The fetch calls _call_with_retry; the loop starts with attempt 0.
RtCall ==
    /\ rtPc = "idle"
    /\ rtPc' = "acquire"
    /\ UNCHANGED <<oldVars, rtRest, rtAttempt, rtCalls, rtTokens, rtSlept, rtOutcome>>

\* Lines 167 and 179: await rate_limiter.acquire()
RtAcquire ==
    /\ rtPc = "acquire"
    /\ rtTokens' = rtTokens + 1
    /\ rtPc' = "call"
    /\ UNCHANGED <<oldVars, rtRest, rtAttempt, rtCalls, rtSlept, rtOutcome>>

\* Lines 168-177 and 180: the remote call and what the API answers.  In the
\* loop a "ratelimited" error is followed by a sleep; any other error, and
\* every error of the final attempt, leaves _call_with_retry.
RtRemote ==
    /\ rtPc = "call"
    /\ rtCalls' = rtCalls + 1
    /\ \/ \* the call returns a result
          /\ rtPc' = "returned"
          /\ UNCHANGED rtSlept
       \/ \* SlackApiError "ratelimited", with or without a Retry-After header
          \E hint \in RetryAfterHints \cup {None} :
             IF rtAttempt < MAX_RETRIES
             THEN /\ rtSlept' = Append(rtSlept, [hint |-> hint,
                                                 seconds |-> RetryAfter(hint, rtAttempt)])
                  /\ rtPc' = "sleep"
             ELSE /\ rtPc' = "raised"
                  /\ UNCHANGED rtSlept
       \/ \* another SlackApiError
          /\ rtPc' = "raised"
          /\ UNCHANGED rtSlept
    /\ UNCHANGED <<oldVars, rtRest, rtAttempt, rtTokens, rtOutcome>>

\* Lines 175-176: asyncio.sleep(retry_after) is over; continue with the next
\* attempt, the final one when the loop is exhausted.
RtWake ==
    /\ rtPc = "sleep"
    /\ rtAttempt' = rtAttempt + 1
    /\ rtPc' = "acquire"
    /\ UNCHANGED <<oldVars, rtRest, rtCalls, rtTokens, rtSlept, rtOutcome>>

\* The calling fetch: it uses the result, or its except SlackApiError clause
\* returns "nothing new" (lines 331-333, 371-372) and the run goes on.
RtFetchEnds ==
    /\ rtPc \in {"returned", "raised"}
    /\ rtOutcome' = IF rtPc = "returned" THEN "result" ELSE "no_change"
    /\ rtPc' = "done"
    /\ UNCHANGED <<oldVars, rtRest, rtAttempt, rtCalls, rtTokens, rtSlept>>

InitRt ==
    /\ ProgramIdle
    /\ RlIdle
    /\ PxIdle
    /\ AlIdle
    /\ MoreIdleBut("rt")
    /\ RtIdle

NextRt ==
    \/ RtCall
    \/ RtAcquire
    \/ RtRemote
    \/ RtWake
    \/ RtFetchEnds

\* The event loop resumes the coroutine after each await: the rate limiter
\* hands out its token, the remote call returns or raises, the sleep ends.
SpecRt == InitRt /\ [][NextRt]_vars /\ WF_vars(NextRt)

\* The bounds and the waits of _call_with_retry.
RtBounded ==
    /\ rtCalls <= MAX_RETRIES + 1
    /\ rtTokens = (IF rtPc = "call" THEN rtCalls + 1 ELSE rtCalls)
    /\ Len(rtSlept) <= MAX_RETRIES
    /\ rtCalls <= Len(rtSlept) + 1
    /\ \A i \in DOMAIN rtSlept :
         rtSlept[i].seconds = (IF rtSlept[i].hint = None THEN 2 ^ (i - 1)
                               ELSE rtSlept[i].hint)
    /\ rtPc = "done" => rtOutcome \in {"result", "no_change"}
    /\ rtPc # "done" => rtOutcome = "none"

---------------------------------------------------------------------------
(* SpecFw: _resolve_folder_path and _get_folder_ancestry walking up a       *)
(* folder cache built from what the remote reports: any folder may name any *)
(* folder as its first parent, itself included, or a folder the cache does  *)
(* not hold (the root of a drive).  One step is one recursive call.         *)

NumFolders == 3
NoParent == 0
Folders == 1..NumFolders

\* The guard without the visited set
InSeenNever(folder_id, seen) == FALSE

\* Lines 441 and 467: folder_id in seen
InSeen(folder_id, seen) == folder_id \in seen

\* One call of _resolve_folder_path (lines 438-459) or _get_folder_ancestry
\* (lines 464-475) for folder fwCur.
FwStep ==
    /\ fwPc = "walking"
    /\ IF InSeen(fwCur, fwSeen)
       THEN /\ fwPc' = "done"
            /\ UNCHANGED <<fwCur, fwSeen, fwResult, fwVisits>>
       ELSE IF fwCur \notin DOMAIN fwCache
       THEN /\ fwPc' = "done"
            /\ fwSeen' = IF fwKind = "path" THEN fwSeen \cup {fwCur} ELSE fwSeen
            /\ UNCHANGED <<fwCur, fwResult, fwVisits>>
       ELSE /\ fwSeen' = fwSeen \cup {fwCur}
            /\ fwResult' = Append(fwResult, fwCur)
            /\ fwVisits' = [fwVisits EXCEPT ![fwCur] = @ + 1]
            /\ IF fwCache[fwCur] = NoParent
               THEN /\ fwPc' = "done"
                    /\ UNCHANGED fwCur
               ELSE /\ fwCur' = fwCache[fwCur]
                    /\ UNCHANGED fwPc
    /\ UNCHANGED <<oldVars, fwRest, fwCache, fwKind>>

InitFw ==
    /\ ProgramIdle
    /\ RlIdle
    /\ PxIdle
    /\ AlIdle
    /\ MoreIdleBut("fw")
    /\ \E known \in SUBSET Folders : fwCache \in [known -> Folders \cup {NoParent}]
    /\ fwKind \in {"path", "ancestry"}
    /\ fwCur \in Folders
    /\ fwSeen = {}
    /\ fwResult = <<>>
    /\ fwVisits = [f \in Folders |-> 0]
    /\ fwPc = "walking"

NextFw == FwStep

\* A call that was made returns or makes the next recursive call.
SpecFw == InitFw /\ [][NextFw]_vars /\ WF_vars(NextFw)

\* Each folder is taken at most once and the result holds no id twice.
FwOncePerFolder ==
    /\ \A f \in DOMAIN fwVisits : fwVisits[f] <= 1
    /\ \A i, j \in DOMAIN fwResult : fwResult[i] = fwResult[j] => i = j

\* C24: on every folder cache, cyclic ones included, _resolve_folder_path and
\* _get_folder_ancestry end, visit each folder at most once per walk and
\* return no folder id twice.
C24_WalkEndsWithoutRepeats ==
    /\ []FwOncePerFolder
    /\ <>(fwPc = "done")

\* A walk over a cycle of at least two folders has ended at the folder it
\* started from.
C24_Witness ==
    /\ fwPc = "done"
    /\ Len(fwResult) >= 2
    /\ fwCur = fwResult[1]
    /\ fwCache[fwResult[Len(fwResult)]] = fwCur

---------------------------------------------------------------------------
(* SpecSem: the fan-out of one download.  SlackConnector.download and       *)
(* GDriveConnector.download create one task per channel or document, all at *)
(* once, and each task runs its body inside "async with semaphore".  The    *)
(* remote reports more items than the semaphore has slots.                  *)

SemExtra == 1

\* A semaphore that lets every task in
SemaphoreOpen(value) == TRUE

\* asyncio.Semaphore.acquire returns at once only while the counter is positive
SemaphoreFree(value) == value > 0

\* process_channel line 87 / process_doc line 142: async with semaphore, entry
SemEnter(i) ==
    /\ semPc[i] = "waiting"
    /\ SemaphoreFree(semValue)
    /\ semValue' = semValue - 1
    /\ semPc' = [semPc EXCEPT ![i] = "inside"]
    /\ UNCHANGED <<oldVars, semRest, semCap>>

\* The body of the async with block is left, by return or by an exception:
\* the slot is released.
SemLeave(i) ==
    /\ semPc[i] = "inside"
    /\ semValue' = semValue + 1
    /\ semPc' = [semPc EXCEPT ![i] = "done"]
    /\ UNCHANGED <<oldVars, semRest, semCap>>

InitSem ==
    /\ ProgramIdle
    /\ RlIdle
    /\ PxIdle
    /\ AlIdle
    /\ MoreIdleBut("sem")
    /\ semCap \in {SLACK_CONCURRENT_CHANNELS, GDRIVE_CONCURRENT_EXPORTS}
    /\ semValue = semCap
    /\ semPc = [i \in 1..(semCap + SemExtra) |-> "waiting"]

NextSem ==
    \/ \E i \in DOMAIN semPc : SemEnter(i)
    \/ \E i \in DOMAIN semPc : SemLeave(i)

SpecSem == InitSem /\ [][NextSem]_vars

\* The items whose task is inside its sync section
SemInside == {i \in DOMAIN semPc : semPc[i] = "inside"}

\* C25: at every instant at most SLACK_CONCURRENT_CHANNELS channels (at most
\* GDRIVE_CONCURRENT_EXPORTS documents) are inside their sync section,
\* however many items the remote reports.
C25_BoundedFanOut ==
    /\ Cardinality(SemInside) <= semCap
    /\ semCap \in {SLACK_CONCURRENT_CHANNELS, GDRIVE_CONCURRENT_EXPORTS}
    /\ semValue = semCap - Cardinality(SemInside)

\* Every slot is taken and a further item waits for one.
C25_Witness ==
    /\ Cardinality(SemInside) = semCap
    /\ \E i \in DOMAIN semPc : semPc[i] = "waiting"

---------------------------------------------------------------------------
(* SpecGc: github_cache.get_repos called over time for several org keys.    *)
(* The cache file holds one repository set per cache key and one            *)
(* last_updated timestamp for the whole file.                               *)

CACHE_TTL_HOURS == 1
GcTicksPerHour == 2
GcMaxTime == 4
Orgs == {"", "acme"}

\* Line 153: cache_key = org or "__all__"
CacheKey(org) == IF org = "" THEN "__all__" ELSE org

\* _is_cache_valid, lines 63-68
IsCacheValid(last_updated, t) ==
    IF last_updated = None THEN FALSE
    ELSE t - last_updated < CACHE_TTL_HOURS * GcTicksPerHour

\* get_repos, lines 150-165: return the cached set of the key, or fetch the
\* list (an empty one when gh fails), store it under the key, stamp
\* last_updated and save.
GetRepos(org, force_refresh) ==
    LET cache_key == CacheKey(org)
    IN  IF ~force_refresh /\ IsCacheValid(gcUpdated, gcNow) /\ cache_key \in DOMAIN gcRepos
        THEN /\ gcCall' = [called |-> TRUE, key |-> cache_key, cached |-> TRUE,
                           age |-> gcNow - gcRepos[cache_key].at]
             /\ UNCHANGED <<gcRepos, gcUpdated>>
        ELSE /\ \E ok \in BOOLEAN :
                  gcRepos' = Put(gcRepos, cache_key, [at |-> gcNow, ok |-> ok])
             /\ gcUpdated' = gcNow
             /\ gcCall' = [called |-> TRUE, key |-> cache_key, cached |-> FALSE, age |-> 0]

GcGetRepos ==
    /\ \E org \in Orgs, force_refresh \in BOOLEAN : GetRepos(org, force_refresh)
    /\ UNCHANGED <<oldVars, gcRest, gcNow>>

GcTick ==
    /\ gcNow < GcMaxTime
    /\ gcNow' = gcNow + 1
    /\ UNCHANGED <<oldVars, gcRest, gcRepos, gcUpdated, gcCall>>

InitGc ==
    /\ ProgramIdle
    /\ RlIdle
    /\ PxIdle
    /\ AlIdle
    /\ MoreIdleBut("gc")
    /\ GcIdle

NextGc ==
    \/ GcGetRepos
    \/ GcTick

SpecGc == InitGc /\ [][NextGc]_vars

\* C26: get_repos returns the cached set of a key only while less than
\* CACHE_TTL_HOURS has passed since that set was fetched, whatever calls for
\* other keys were made in between.
C26_TtlPerSet ==
    (gcCall.called /\ gcCall.cached) => gcCall.age < CACHE_TTL_HOURS * GcTicksPerHour

---------------------------------------------------------------------------
(* SpecOv: two sync_all_async runs on the same data directory in one event  *)
(* loop: the scheduled sync (api.py:58-69) and the sync of a webhook        *)
(* triggered enhancement (api.py:376-378).  Each run constructs its own     *)
(* StateManager, with its own lock and its own copy of the state read from  *)
(* sync_state.json; update_item and finalize have no await between taking  *)
(* the lock and the return of _save(), so each is one step.                 *)

Runs == {"scheduled", "webhook"}

\* sync_all_async lines 69-73: StateManager(data_path) loads the state file.
OvStart(r) ==
    /\ ovPc[r] = "idle"
    /\ ovSm' = [ovSm EXCEPT ![r] = Load]
    /\ ovPc' = [ovPc EXCEPT ![r] = "running"]
    /\ UNCHANGED <<oldVars, ovRest>>

\* StateManager.update_item, lines 34-40, called by a connector of run r
OvUpdateItem(r) ==
    /\ ovPc[r] = "running"
    /\ \E s \in SMSources, i \in SMItems, v \in SMValues :
         /\ ovSm' = [ovSm EXCEPT ![r] = UpdateItem(ovSm[r], s, i, v)]
         /\ returned' = Put(returned, <<s, i>>, v)
    /\ file' = Save(ovSm'[r], file)
    /\ fileExists' = TRUE
    /\ UNCHANGED <<sm, now, lock, tpc, targ, orchVars, connVars, saveErr, credited, sideVars,
                   unitVars, ovRest, ovPc>>

\* StateManager.finalize, lines 42-46, at the end of run r
OvFinalize(r) ==
    /\ ovPc[r] = "running"
    /\ ovSm' = [ovSm EXCEPT ![r] = SetLastSync(ovSm[r], now)]
    /\ file' = Save(ovSm'[r], file)
    /\ fileExists' = TRUE
    /\ ovPc' = [ovPc EXCEPT ![r] = "ended"]
    /\ UNCHANGED <<sm, now, smVars, orchVars, connVars, saveErr, credited, sideVars,
                   unitVars, ovRest>>

InitOv ==
    /\ ProgramIdle
    /\ RlIdle
    /\ PxIdle
    /\ AlIdle
    /\ MoreIdleBut("ov")
    /\ ovSm = [r \in Runs |-> EmptyState]
    /\ ovPc = [r \in Runs |-> "idle"]

NextOv ==
    \/ \E r \in Runs : OvStart(r)
    \/ \E r \in Runs : OvUpdateItem(r)
    \/ \E r \in Runs : OvFinalize(r)

SpecOv == InitOv /\ [][NextOv]_vars

\* C27: when two runs overlap, the item state committed by the last returned
\* update_item for a source and item, of either run, is in the state file.
C27_OverlapKeepsCommits ==
    \A k \in DOMAIN returned :
        /\ fileExists
        /\ k[1] \in DOMAIN file
        /\ k[2] \in DOMAIN file[k[1]]
        /\ file[k[1]][k[2]] = returned[k]

---------------------------------------------------------------------------
(* SpecChat: repeated runs of the Slack connector alone, never killed,      *)
(* against channels in which up to ThreadMaxPosts messages are posted       *)
(* between the runs: enough for a reply to be followed by a newer top-level *)
(* message.                                                                 *)

ThreadMaxPosts == 3

ChatPostMore == ChatPostUpTo(ThreadMaxPosts)

InitThreads ==
    /\ ExtIdle
    /\ file = EmptyState
    /\ fileExists = FALSE
    /\ sm = EmptyState
    /\ now = 0
    /\ SMQuiet
    /\ OrchIdle
    /\ ConnQuiet
    /\ InitChat

NextThreads ==
    \/ ChatStart
    \/ \E ch \in Chans : ChanSync(ch)
    \/ \E ch \in Chans : ChanCommit(ch)
    \/ ChatGather
    \/ ChatPostMore
    \/ ConnFinalize
    \/ ConnDone

SpecChat == InitThreads /\ [][NextThreads]_vars

\* The diff token sync_state.json holds for channel ch
PersistedTs(ch) == LastTs(SMGet(Load, "slack"), ch)

\* C28: the persisted diff token of a channel never moves past a remote
\* message, top-level or reply, that was not written to the channel's file.
C28_NoMessageLoss ==
    \A ch \in Chans : \A t \in DOMAIN remote[ch] :
        t <= PersistedTs(ch) => Get(disk[ch], t, 0) >= 1

\* C28 for top-level messages alone: the code keeps that part as long as
\* the history fits in one conversations.history call.
C28_NoTopLevelLoss ==
    \A ch \in Chans : \A t \in DOMAIN remote[ch] :
        (remote[ch][t] = 0 /\ t <= PersistedTs(ch)) => Get(disk[ch], t, 0) >= 1

---------------------------------------------------------------------------
(* SpecNm: _delete_doc_md_file on an output directory left by earlier runs. *)
(* A document's artifact is the file <safe_name>.md written by              *)
(* _export_and_save_doc, safe_name being the display name with every        *)
(* character other than letters, digits, " ", "-", "_" replaced by "_".     *)
(* Names are sequences of characters; a file name is the safe name.         *)

DocNames == {<<"a">>, <<"/">>, <<"_">>, <<"a", "/">>, <<"a", "_">>}
NoName == <<>>

\* c.isalnum() for the characters of DocNames
IsAlnum(c) == c = "a"

\* Lines 226 and 537: "".join(c if c.isalnum() or c in " -_" else "_" for c in name)
SafeName(name) ==
    [i \in DOMAIN name |-> IF IsAlnum(name[i]) \/ name[i] \in {" ", "-", "_"}
                           THEN name[i] ELSE "_"]

\* Lines 531-532: stored_name and names_to_try
NamesToTry(stored_name, doc_name) ==
    IF stored_name # NoName THEN <<stored_name, doc_name>> ELSE <<doc_name>>

\* Lines 534-542: the first name whose file exists is unlinked
RECURSIVE UnlinkFirst(_, _)
UnlinkFirst(files, names_to_try) ==
    IF names_to_try = <<>> THEN files
    ELSE LET name == Head(names_to_try)
             md_path == SafeName(name)
         IN  IF name # NoName /\ md_path \in DOMAIN files
             THEN [f \in DOMAIN files \ {md_path} |-> files[f]]
             ELSE UnlinkFirst(files, Tail(names_to_try))

\* download lines 113-117: the document is in an excluded folder, its
\* artifact is removed.
NmDelete(d) ==
    /\ nmTarget = 0
    /\ nmTarget' = d
    /\ nmBefore' = nmFiles
    /\ nmFiles' = UnlinkFirst(nmFiles, NamesToTry(nmStored[d], nmNames[d]))
    /\ UNCHANGED <<oldVars, nmRest, nmNames, nmStored>>

\* The directory earlier runs can have left: every document with a state
\* entry was exported under the name stored there, and a file belongs to the
\* document that wrote it last.
InitNm ==
    /\ ProgramIdle
    /\ RlIdle
    /\ PxIdle
    /\ AlIdle
    /\ MoreIdleBut("nm")
    /\ nmNames \in [Docs -> DocNames]
    /\ nmStored \in [Docs -> DocNames \cup {NoName}]
    /\ LET synced == {d \in Docs : nmStored[d] # NoName}
           paths == {SafeName(nmStored[d]) : d \in synced}
       IN  /\ nmFiles \in [paths -> synced]
           /\ \A f \in paths : SafeName(nmStored[nmFiles[f]]) = f
    /\ nmBefore = EmptyDict
    /\ nmTarget = 0

NextNm == \E d \in Docs : NmDelete(d)

SpecNm == InitNm /\ [][NextNm]_vars

\* C29: the deletion step for an excluded document leaves the artifact of
\* every other document as it was, and deletes nothing when the excluded
\* document was never synced.
C29_DeletesOwnArtifactOnly ==
    nmTarget # 0 =>
        /\ \A f \in DOMAIN nmBefore :
              nmBefore[f] # nmTarget => (f \in DOMAIN nmFiles /\ nmFiles[f] = nmBefore[f])
        /\ nmStored[nmTarget] = NoName => nmFiles = nmBefore

\* C29 when no two documents share a safe name, now or in the state.
C29_DeletesOwnWhenNamesDiffer ==
    LET safe(d) == {SafeName(nmNames[d])} \cup
                   (IF nmStored[d] = NoName THEN {} ELSE {SafeName(nmStored[d])})
    IN  (nmTarget # 0 /\ \A d, e \in Docs : d # e => safe(d) \cap safe(e) = {}) =>
            /\ \A f \in DOMAIN nmBefore :
                  nmBefore[f] # nmTarget => (f \in DOMAIN nmFiles /\ nmFiles[f] = nmBefore[f])
            /\ nmStored[nmTarget] = NoName => nmFiles = nmBefore

---------------------------------------------------------------------------
(* Documents that leave an excluded folder again, over SpecGdx.             *)

\* The documents the returned download counted as unchanged (skipped): listed,
\* not excluded, and given no process_doc task.
CountedUnchanged == DOMAIN listing \ DOMAIN task

\* C30: whenever a run ends with a remote document outside the excluded
\* folders and counted as unchanged, that document's artifact is on disk; a
\* document whose artifact was retroactively deleted is exported again in the
\* first run in which it is no longer excluded.
C30_UnchangedHasArtifact ==
    Returned("gdrive") => \A d \in CountedUnchanged : disk[d] # 0

====
